---- MODULE Spec2Model ----
(***************************************************************************)
(* State-machine model of the Teqpod site scripts:                         *)
(*   assets/js/components.js  ComponentSystem (template renderer)          *)
(*   assets/js/animations.js  AnimationSystem, TeqpodApp, DOMManager       *)
(* Time is in milliseconds.  A timer is urgent: time does not pass a due   *)
(* timer, but any other event may still happen at the instant it is due.   *)
(***************************************************************************)
EXTENDS Integers, Sequences, FiniteSets, TLC

\* ------------------------------------------------------------------ bounds
MaxLen == 2          \* longest record list handed to one render call
MaxNodes == 2        \* template clones made in one behaviour
MaxRand == 3         \* distinct values Math.random() contributes to an id
MaxObservers == 3    \* observers created in the registry specification

\* ------------------------------------------------------- program constants
StatStagger == 200   \* setTimeout(..., index * 200) in renderStats

Null == "null"       \* a missing DOM element (getElementById returned null)
Absent == <<0>>      \* an undefined argument or document field (no record is 0)
NoStagger == -1      \* dataset.stagger was never written

RecIds == 1..2
RecordLists == UNION {[1..n -> RecIds] : n \in 0..MaxLen}
Rand == 1..MaxRand

Kinds == {"stats", "features", "events", "contact", "footer"}

\* ---------------------------------------------------------------- state
VARIABLES
  now,            \* Date.now() / performance.now()
  timers,         \* pending setTimeout callbacks: [id, due, kind, arg]
  timerSeq,       \* number of timers created so far (next timer id - 1)
  observers,      \* DOMManager.observers: Map observerId -> IntersectionObserver
  handles,        \* every handle createIntersectionObserver has returned
  disconnected,   \* IntersectionObservers whose disconnect() has been invoked
  containers,     \* children of each section container, in document order
  cloned,         \* number of template clones made so far
  threw,          \* an exception escaped the last operation
  timeout,        \* debounce closure: id of the timer last set (0: undefined)
  inThrottle,     \* throttle closure: the window is open
  log,            \* calls of the wrapped function and runs of func, in order
  reducedMotion,  \* AnimationSystem.isReducedMotion, read once at startup
  domPresent,     \* ids of the elements the page markup holds
  pc,             \* where TeqpodApp.init() stands
  fetchState,     \* the content fetch: pending, response, ok, failed
  fetchCount,     \* fetches issued so far
  minLoadDone,    \* the minimum-loading timer has fired
  siteData,       \* TeqpodApp.siteData: <<>> for null, <<document>> once loaded
  isInitialized,  \* TeqpodApp.isInitialized
  elementsCached, \* TeqpodApp.elements holds the lookups of cacheElements()
  loading,        \* style of the loading screen: opacity and display
  modals,         \* modals createModal has put into the document
  initLog,        \* the calls init() has completed, in order
  animObservers,  \* AnimationSystem.observers
  compTemplates,  \* ComponentSystem.templates (names)
  domTemplates,   \* DOMManager.templates (names)
  lastOp,         \* the operation that produced this state, with its arguments
  rafQueue,       \* requestAnimationFrame callbacks waiting for the next frame
  watching,       \* <<observer, element, record>>: the observer observes the
                  \* element; record is the stat its callback closes over (0: none)
  shown,          \* counter chain -> its call and the texts it has displayed
  active,         \* element -> transition delay, for elements of class active
  style,          \* inline style and class of the element the effects act on
  effectCalls,    \* fadeIn / fadeOut / slideUp / scale calls made so far
  form,           \* the contact form: its .form-input fields, in document order
  submitBtn,      \* the form's submit button (present: the form has one)
  notifications,  \* types of the notifications createNotification has shown
  submits,        \* submit events handled so far
  matching,       \* an element matching the selector waited for is in the document
  wait,           \* the waitForElement call: promise, observer, timer, settle calls
  nav,            \* listeners bound, classes of toggle, menu and navbar, body overflow
  pageYOffset,    \* window.pageYOffset, a fraction <<numerator, denominator>>
  scrolls,        \* smooth-scroll chain -> its start, target and writes
  loader          \* the indicator of showLoading: where it stands, when hiding began

domVars == <<timers, timerSeq, observers, handles, disconnected, containers,
            cloned, threw>>
utilVars == <<timeout, inThrottle, log>>
appVars == <<reducedMotion, domPresent, pc, fetchState, fetchCount, minLoadDone,
            siteData, isInitialized, elementsCached, loading, modals, initLog,
            animObservers, compTemplates, domTemplates>>
motionVars == <<rafQueue, watching, shown, active, style, effectCalls>>
formVars == <<form, submitBtn, notifications, submits>>
waitVars == <<matching, wait>>
navVars == <<nav, pageYOffset, scrolls>>
pageVars == <<waitVars, navVars, loader>>
uiVars == <<motionVars, formVars, pageVars>>
vars == <<now, timers, timerSeq, observers, handles, disconnected, containers,
          cloned, threw, timeout, inThrottle, log, reducedMotion, domPresent,
          pc, fetchState, fetchCount, minLoadDone, siteData, isInitialized,
          elementsCached, loading, modals, initLog, animObservers,
          compTemplates, domTemplates, lastOp, rafQueue, watching, shown,
          active, style, effectCalls, form, submitBtn, notifications, submits,
          pageVars>>

\* ------------------------------------------------------------- JS Map
EmptyMap == [k \in {} |-> 0]
MapSet(m, k, v) == [x \in (DOMAIN m) \cup {k} |-> IF x = k THEN v ELSE m[x]]
MapDelete(m, k) == [x \in (DOMAIN m) \ {k} |-> m[x]]
MapValues(m) == {m[k] : k \in DOMAIN m}

\* lastOp: the operation, whether its record list was given (for cleanup:
\* whether no observer had been disconnected before it; for destroy: whether
\* the controller was ready before it), its container
Op(name, given, cont) == [op |-> name, given |-> given, cont |-> cont]

\* ------------------------------------------------------------ setTimeout
setTimeout(st, kind, arg, delay) ==
  [st EXCEPT !.t = @ \cup {[id |-> st.s + 1, due |-> now + delay,
                            kind |-> kind, arg |-> arg]},
             !.s = @ + 1]

\* The timer the event loop runs next: the earliest due, oldest first.
NextTimer(t) ==
  /\ t \in timers
  /\ t.due <= now
  /\ \A u \in timers : u.due > t.due \/ (u.due = t.due /\ u.id >= t.id)

\* ------------------------------------------------------------ JS strings
\* A string is the sequence of its characters, so that concatenation,
\* replace(/\D/g, ''), parseInt and number-to-string are computed.
Digits == <<"0", "1", "2", "3", "4", "5", "6", "7", "8", "9">>
IsDigit(c) == \E d \in 1..10 : Digits[d] = c
DigitVal(c) == (CHOOSE d \in 1..10 : Digits[d] = c) - 1

NaN == -1            \* parseInt of a string that starts with no digit
NaNText == <<"N", "a", "N">>

\* target.replace(/\D/g, '')
DigitsOnly(str) == SelectSeq(str, IsDigit)

RECURSIVE parseIntFrom(_, _)
parseIntFrom(str, acc) ==
  IF str = <<>> \/ ~IsDigit(Head(str)) THEN acc
  ELSE parseIntFrom(Tail(str), acc * 10 + DigitVal(Head(str)))

parseInt(str) ==
  IF str = <<>> \/ ~IsDigit(Head(str)) THEN NaN ELSE parseIntFrom(str, 0)

\* String(n) of a number: current + suffix starts with it
RECURSIVE ToText(_)
ToText(n) ==
  IF n = NaN THEN NaNText
  ELSE IF n < 10 THEN <<Digits[n + 1]>>
  ELSE ToText(n \div 10) \o <<Digits[(n % 10) + 1]>>

\* the stat records of the content document: {number, suffix, label}
Stat(rec) ==
  IF rec = 1 THEN [number |-> <<"4", "2">>, suffix |-> <<"%">>, label |-> "Growth"]
  ELSE [number |-> <<"7">>, suffix |-> <<>>, label |-> "Labs"]

\* ------------------------------------------ ComponentSystem render calls
Instance(tmpl, rec, stagger) == [tmpl |-> tmpl, rec |-> rec, stagger |-> stagger]

Guarded(records, container) == container = Null \/ records = Absent

\* forEach over the records builds a fragment; appendChild(fragment) moves
\* its children, in order, to the end of the container.  forEach on an
\* undefined list and appendChild on a null container raise a TypeError.
AppendFragment(st, fragment, container) ==
  IF container = Null THEN [st EXCEPT !.n = @ + Len(fragment), !.x = TRUE]
  ELSE [st EXCEPT !.n = @ + Len(fragment), !.c[container] = @ \o fragment]

renderFeatures(st, features, container) ==
  IF Guarded(features, container) THEN st
  ELSE IF features = Absent THEN [st EXCEPT !.x = TRUE]
  ELSE AppendFragment(st,
         [i \in 1..Len(features) |-> Instance("feature-card", features[i], i - 1)],
         container)

RECURSIVE StatTimers(_, _, _)
StatTimers(st, stats, i) ==
  IF i > Len(stats) THEN st
  ELSE StatTimers(setTimeout(st, "counterSetup", <<stats[i], i - 1, st.n + i>>,
                             (i - 1) * StatStagger),
                  stats, i + 1)

\* the same with the number written into the slot at once
StatCardFinal(st, stat, i) ==
  [tmpl |-> "stat-card", rec |-> stat, stagger |-> i - 1, node |-> st.n + i,
   number |-> Stat(stat).number \o Stat(stat).suffix, label |-> Stat(stat).label]

\* a stat card: the number slot holds '0' + suffix, the label slot the
\* label; node names the number element the deferred callback closes over
StatCard(st, stat, i) ==
  [tmpl |-> "stat-card", rec |-> stat, stagger |-> i - 1, node |-> st.n + i,
   number |-> <<"0">> \o Stat(stat).suffix, label |-> Stat(stat).label]

renderStatsNoGuard(st, stats, container) ==
  IF stats = Absent THEN [st EXCEPT !.x = TRUE]
  ELSE AppendFragment(StatTimers(st, stats, 1),
         [i \in 1..Len(stats) |-> StatCard(st, stats[i], i)],
         container)

renderStats(st, stats, container) ==
  IF Guarded(stats, container) THEN st
  ELSE IF stats = Absent THEN [st EXCEPT !.x = TRUE]
  ELSE AppendFragment(StatTimers(st, stats, 1),
         [i \in 1..Len(stats) |-> StatCard(st, stats[i], i)],
         container)

renderEvents(st, events, container) ==
  IF Guarded(events, container) THEN st
  ELSE IF events = Absent THEN [st EXCEPT !.x = TRUE]
  ELSE AppendFragment(st,
         [i \in 1..Len(events) |-> Instance("event-item", events[i], i - 1)],
         container)

renderContactInfo(st, contactData, container) ==
  IF Guarded(contactData, container) THEN st
  ELSE IF contactData = Absent THEN [st EXCEPT !.x = TRUE]
  ELSE AppendFragment(st,
         [i \in 1..Len(contactData) |-> Instance("contact-item", contactData[i], i - 1)],
         container)

\* The footer loop never writes dataset.stagger.
renderFooterLinks(st, footerData, container) ==
  IF Guarded(footerData, container) THEN st
  ELSE IF footerData = Absent THEN [st EXCEPT !.x = TRUE]
  ELSE AppendFragment(st,
         [i \in 1..Len(footerData) |-> Instance("footer-section", footerData[i], NoStagger)],
         container)

render(kind, st, records, container) ==
  CASE kind = "stats" -> renderStats(st, records, container)
    [] kind = "features" -> renderFeatures(st, records, container)
    [] kind = "events" -> renderEvents(st, records, container)
    [] kind = "contact" -> renderContactInfo(st, records, container)
    [] kind = "footer" -> renderFooterLinks(st, records, container)

clearContainer(st, container) ==
  IF container = Null THEN st ELSE [st EXCEPT !.c[container] = <<>>]

\* --------------------------------------------- DOMManager observer registry
\* observerId = `observer_${Date.now()}_${Math.random()...}`; Map.set
\* replaces the value stored under a key that is already present.
\* Math.random() is a nonce: it does not return a value it returned before.
ObserverId(r) == <<now, r>>

FreshRandom == Rand \ {h.id[2] : h \in handles}

NewObserver == Cardinality(handles) + 1

\* the same with the random part of the id left out
createIntersectionObserverTimeOnly(reg, r) ==
  [observers |-> MapSet(reg, <<now, 0>>, NewObserver),
   handle |-> [observer |-> NewObserver, id |-> <<now, 0>>]]

createIntersectionObserver(reg, r) ==
  [observers |-> MapSet(reg, ObserverId(r), NewObserver),
   handle |-> [observer |-> NewObserver, id |-> ObserverId(r)]]

\* handle.disconnect(): observer.disconnect(); this.observers.delete(observerId)
HandleDisconnect(reg, disc, h) ==
  [observers |-> MapDelete(reg, h.id), disconnected |-> disc \cup {h.observer}]

\* the same without the disconnect loop
DOMManager_cleanupClearOnly(reg, disc) ==
  [observers |-> EmptyMap, disconnected |-> disc]

\* DOMManager.cleanup(): disconnect every registered observer, clear the Map
DOMManager_cleanup(reg, disc) ==
  [observers |-> EmptyMap, disconnected |-> disc \cup MapValues(reg)]

\* the number element of the stat card cloned as node k
NumberEl(k) == <<"number", k>>

\* setupCounterAnimation(element, target): one registered observer per stat
setupCounterAnimation(reg, r) == createIntersectionObserver(reg, r)

\* ------------------------------------------------- specification: rendering
DomState ==
  [c |-> containers, t |-> timers, s |-> timerSeq, n |-> cloned, x |-> threw]

SetDom(st) ==
  /\ containers' = st.c
  /\ timers' = st.t
  /\ timerSeq' = st.s
  /\ cloned' = st.n
  /\ threw' = st.x

TemplateNames ==
  {"feature-card", "stat-card", "event-item", "contact-item", "footer-section"}

\* the page before any script has run
Shown == [opacity |-> "1", display |-> ""]

\* the element the effect calls act on, as the markup leaves it
Plain == [opacity |-> "", transform |-> "", transition |-> "", active |-> FALSE]

InitMotion ==
  /\ rafQueue = <<>>
  /\ watching = {}
  /\ shown = EmptyMap
  /\ active = EmptyMap
  /\ style = Plain
  /\ effectCalls = 0

\* the submit button as the markup leaves it
ButtonText == "Send Message"
IdleButton == [present |-> TRUE, text |-> ButtonText, disabled |-> FALSE,
               loading |-> FALSE]

InitForm ==
  /\ form = <<>>
  /\ submitBtn = IdleButton
  /\ notifications = <<>>
  /\ submits = 0

NoWait == [promise |-> "none", observer |-> "none", calls |-> <<>>, due |-> 0,
           n |-> 0]

Unbound == [bound |-> {}, toggleActive |-> FALSE, menuActive |-> FALSE,
            overflow |-> "", scrolled |-> FALSE]

InitNav ==
  /\ nav = Unbound
  /\ pageYOffset = <<0, 1>>
  /\ scrolls = EmptyMap

NoLoader == [state |-> "none", hideAt |-> 0, removedAt |-> 0]

InitPage ==
  /\ matching = FALSE
  /\ wait = NoWait
  /\ InitNav
  /\ loader = NoLoader

InitUi == InitMotion /\ InitForm /\ InitPage

InitAppState ==
  /\ pc = "unstarted"
  /\ fetchState = "idle"
  /\ fetchCount = 0
  /\ minLoadDone = FALSE
  /\ siteData = <<>>
  /\ isInitialized = FALSE
  /\ elementsCached = FALSE
  /\ loading = Shown
  /\ modals = <<>>
  /\ initLog = <<>>
  /\ animObservers = <<>>
  /\ compTemplates = TemplateNames
  /\ domTemplates = {}

InitApp ==
  /\ domPresent = {"loading-screen"} \cup Kinds
  /\ InitAppState

InitIdle ==
  /\ InitApp
  /\ now = 0
  /\ timers = {}
  /\ timerSeq = 0
  /\ observers = EmptyMap
  /\ handles = {}
  /\ disconnected = {}
  /\ containers = [k \in Kinds |-> <<>>]
  /\ cloned = 0
  /\ threw = FALSE
  /\ timeout = 0
  /\ inThrottle = FALSE
  /\ log = <<>>
  /\ lastOp = Op("init", FALSE, Null)
  /\ InitUi

InitDom == InitIdle /\ reducedMotion = FALSE

RenderCall(kind, records, container) ==
  /\ ~threw
  /\ records # Absent => cloned + Len(records) <= MaxNodes
  /\ SetDom(render(kind, DomState, records, container))
  /\ lastOp' = Op(kind, records # Absent, container)
  /\ UNCHANGED <<now, observers, handles, disconnected, utilVars, appVars, uiVars>>

ClearCall(container) ==
  /\ ~threw
  /\ container # Null => containers[container] # <<>>
  /\ SetDom(clearContainer(DomState, container))
  /\ lastOp' = Op("clear", FALSE, container)
  /\ UNCHANGED <<now, observers, handles, disconnected, utilVars, appVars, uiVars>>

NextRender ==
  \/ \E kind \in Kinds, records \in RecordLists \cup {Absent} :
       \E container \in {kind, Null} : RenderCall(kind, records, container)
  \/ \E container \in Kinds \cup {Null} : ClearCall(container)

SpecRender == InitDom /\ [][NextRender]_vars

\* C1: for every content kind, rendering n records into an empty container
\* leaves exactly n instances, in input order, the i-th carrying stagger i.
Rendered(children, records) ==
  /\ Len(children) = Len(records)
  /\ \A i \in 1..Len(records) :
       children[i].rec = records[i] /\ children[i].stagger = i - 1

C1_RenderInOrderWithStagger ==
  [][\A kind \in Kinds, records \in RecordLists :
       (containers[kind] = <<>> /\ RenderCall(kind, records, kind))
         => Rendered(containers'[kind], records)]_vars

\* C2: a render call with an absent container or absent records raises no
\* error and changes nothing: no node, no timer, no observer.
AbsentArgument(o) == o.op \in Kinds /\ (o.cont = Null \/ ~o.given)

C2_AbsentArgsNoOp ==
  [][AbsentArgument(lastOp')
       => (~threw' /\ UNCHANGED <<containers, cloned, timers, timerSeq,
                                  observers, handles, disconnected>>)]_vars

C2_Witness ==
  /\ AbsentArgument(lastOp)
  /\ lastOp.op = "stats"
  /\ lastOp.given
  /\ containers["stats"] # <<>>
  /\ timers # {}

\* ------------------------------------- specification: observer registry
MaxClock == 2        \* milliseconds that pass in the registry specification

CreateObserver(r) ==
  /\ Cardinality(handles) < MaxObservers
  /\ LET made == createIntersectionObserver(observers, r) IN
       /\ observers' = made.observers
       /\ handles' = handles \cup {made.handle}
  /\ lastOp' = Op("create", TRUE, Null)
  /\ UNCHANGED <<now, timers, timerSeq, disconnected, containers, cloned, threw,
                 utilVars, appVars, uiVars>>

DisconnectHandle(h) ==
  /\ LET after == HandleDisconnect(observers, disconnected, h) IN
       /\ observers' = after.observers
       /\ disconnected' = after.disconnected
  /\ lastOp' = Op("disconnect", TRUE, Null)
  /\ UNCHANGED <<now, timers, timerSeq, handles, containers, cloned, threw,
                 utilVars, appVars, uiVars>>

CleanupCall ==
  /\ LET after == DOMManager_cleanup(observers, disconnected) IN
       /\ observers' = after.observers
       /\ disconnected' = after.disconnected
  /\ lastOp' = Op("cleanup", disconnected = {}, Null)
  /\ UNCHANGED <<now, timers, timerSeq, handles, containers, cloned, threw,
                 utilVars, appVars, uiVars>>

Tick ==
  /\ now < MaxClock
  /\ now' = now + 1
  /\ lastOp' = Op("time", FALSE, Null)
  /\ UNCHANGED <<domVars, utilVars, appVars, uiVars>>

NextObservers ==
  \/ \E r \in FreshRandom : CreateObserver(r)
  \/ \E h \in handles : DisconnectHandle(h)
  \/ CleanupCall
  \/ Tick

SpecObservers == InitDom /\ [][NextObservers]_vars

\* C5: with k observers created and none yet disconnected, one global
\* cleanup invokes disconnect on each of the k and empties the registry.
C5_CleanupDisconnectsAll ==
  (lastOp.op = "cleanup" /\ lastOp.given)
    => (/\ \A h \in handles : h.observer \in disconnected
        /\ observers = EmptyMap)

C5_Witness ==
  /\ lastOp.op = "cleanup"
  /\ lastOp.given
  /\ Cardinality(handles) = MaxObservers
  /\ \E g, h \in handles : g.id[1] = h.id[1] /\ g # h

\* C6: every handle created and not yet disconnected is in the registry
\* under its own identifier, and a handle's disconnect removes exactly its
\* own entry.
Registered(reg, h) == h.id \in DOMAIN reg /\ reg[h.id] = h.observer

LiveHandlesRegistered ==
  \A h \in handles : h.observer \notin disconnected => Registered(observers, h)

C6_LiveHandlesRegistered ==
  [][/\ LiveHandlesRegistered'
     /\ lastOp'.op = "disconnect" =>
          \A g \in handles :
            (Registered(observers, g) /\ g.observer \notin disconnected')
              => Registered(observers', g)
     /\ \A g \in handles' :
          g.observer \in disconnected' => ~Registered(observers', g)]_vars

C6_Witness ==
  /\ lastOp.op = "disconnect"
  /\ \E g, h \in handles :
       /\ g.id[1] = h.id[1]
       /\ g.observer \in disconnected
       /\ h.observer \notin disconnected
       /\ Registered(observers, h)

\* ------------------------------------------ DOMManager debounce / throttle
MaxCalls == 3        \* calls of the wrapped function in one behaviour
DebounceWait == 100  \* wait handed to debounce
DebounceMaxTime == 200
DebounceSteps == {40, 50}    \* gaps between events, besides waiting for a timer
ThrottleLimit == 10  \* limit handed to throttle
ThrottleMaxTime == 30
ThrottleSteps == {5}

Event(ev, arg) == [ev |-> ev, t |-> now, arg |-> arg]
Calls == {p \in 1..Len(log) : log[p].ev = "call"}
Runs == {p \in 1..Len(log) : log[p].ev = "run"}

clearTimeout(ts, id) == {t \in ts : t.id # id}

UtilState == [t |-> timers, s |-> timerSeq, timeout |-> timeout,
              inThrottle |-> inThrottle, log |-> log]

SetUtil(st) ==
  /\ timers' = st.t
  /\ timerSeq' = st.s
  /\ timeout' = st.timeout
  /\ inThrottle' = st.inThrottle
  /\ log' = st.log

\* the same without clearTimeout(timeout) before the new timer is set
debounceNoClear(st, arg) ==
  [setTimeout(st, "later", <<arg>>, DebounceWait) EXCEPT !.timeout = st.s + 1]

\* executedFunction(...args) of debounce(func, wait)
debounce(st, arg) ==
  [setTimeout([st EXCEPT !.t = clearTimeout(@, st.timeout)],
              "later", <<arg>>, DebounceWait)
     EXCEPT !.timeout = st.s + 1]

\* later(): clearTimeout(timeout); func(...args)
later(st, t) ==
  [st EXCEPT !.t = clearTimeout(@ \ {t}, st.timeout),
             !.log = Append(@, Event("run", t.arg[1]))]

\* the same without inThrottle = true
throttleNoFlag(st, arg) ==
  IF ~st.inThrottle
  THEN setTimeout([st EXCEPT !.log = Append(@, Event("run", arg))],
                  "throttleReset", <<arg>>, ThrottleLimit)
  ELSE st

\* executedFunction(...args) of throttle(func, limit)
throttle(st, arg) ==
  IF ~st.inThrottle
  THEN setTimeout([st EXCEPT !.log = Append(@, Event("run", arg)),
                             !.inThrottle = TRUE],
                  "throttleReset", <<arg>>, ThrottleLimit)
  ELSE st

\* () => inThrottle = false
throttleReset(st, t) ==
  [st EXCEPT !.t = @ \ {t}, !.inThrottle = FALSE,
             !.log = Append(@, Event("reset", t.arg[1]))]

Called(st) == [st EXCEPT !.log = Append(@, Event("call", Cardinality(Calls) + 1))]

DebounceCall ==
  /\ Cardinality(Calls) < MaxCalls
  /\ SetUtil(debounce(Called(UtilState), Cardinality(Calls) + 1))
  /\ lastOp' = Op("call", TRUE, Null)
  /\ UNCHANGED <<now, observers, handles, disconnected, containers, cloned, threw,
                 appVars, uiVars>>

LaterFires(t) ==
  /\ NextTimer(t)
  /\ t.kind = "later"
  /\ SetUtil(later(UtilState, t))
  /\ lastOp' = Op("later", TRUE, Null)
  /\ UNCHANGED <<now, observers, handles, disconnected, containers, cloned, threw,
                 appVars, uiVars>>

ThrottleCall ==
  /\ Cardinality(Calls) < MaxCalls
  /\ SetUtil(throttle(Called(UtilState), Cardinality(Calls) + 1))
  /\ lastOp' = Op("call", TRUE, Null)
  /\ UNCHANGED <<now, observers, handles, disconnected, containers, cloned, threw,
                 appVars, uiVars>>

ResetFires(t) ==
  /\ NextTimer(t)
  /\ t.kind = "throttleReset"
  /\ SetUtil(throttleReset(UtilState, t))
  /\ lastOp' = Op("reset", TRUE, Null)
  /\ UNCHANGED <<now, observers, handles, disconnected, containers, cloned, threw,
                 appVars, uiVars>>

\* d ms pass without any event; no timer is due before they are over
Elapse(d, limit) ==
  /\ now + d <= limit
  /\ \A t \in timers : t.due >= now + d
  /\ now' = now + d
  /\ lastOp' = Op("time", FALSE, Null)
  /\ UNCHANGED <<domVars, utilVars, appVars, uiVars>>

\* time passes up to the next due timer
AdvanceTime ==
  /\ timers # {}
  /\ \A t \in timers : t.due > now
  /\ \E t \in timers :
       /\ \A u \in timers : u.due >= t.due
       /\ now' = t.due
  /\ lastOp' = Op("time", FALSE, Null)
  /\ UNCHANGED <<domVars, utilVars, appVars, uiVars>>

NextDebounce ==
  \/ DebounceCall
  \/ \E t \in timers : LaterFires(t)
  \/ \E d \in DebounceSteps : Elapse(d, DebounceMaxTime)
  \/ AdvanceTime

SpecDebounce == InitDom /\ [][NextDebounce]_vars

NextThrottle ==
  \/ ThrottleCall
  \/ \E t \in timers : ResetFires(t)
  \/ \E d \in ThrottleSteps : Elapse(d, ThrottleMaxTime)
  \/ AdvanceTime

SpecThrottle == InitDom /\ [][NextThrottle]_vars

\* C3: func runs only on the trailing edge, exactly wait ms after a call
\* that no other call followed within wait ms, with that call's arguments;
\* at most one invocation is pending at any time.
C3_DebounceTrailingEdge ==
  /\ Cardinality({t \in timers : t.kind = "later"}) <= 1
  /\ \A p \in Runs :
       /\ p > 1
       /\ log[p - 1].ev = "call"
       /\ log[p - 1].arg = log[p].arg
       /\ log[p].t = log[p - 1].t + DebounceWait
  /\ \A q \in Calls :
       /\ (q < Len(log) /\ log[q + 1].ev = "call")
            => log[q + 1].t <= log[q].t + DebounceWait
       /\ q = Len(log)
            => /\ now <= log[q].t + DebounceWait
               /\ \E t \in timers : /\ t.kind = "later"
                                     /\ t.due = log[q].t + DebounceWait
                                     /\ t.arg = <<log[q].arg>>

\* calls at 0, 50, 90: one run, wait ms after the call at 90, with its arguments
C3_Witness ==
  /\ Len(log) = 4
  /\ log[1] = [ev |-> "call", t |-> 0, arg |-> 1]
  /\ log[2] = [ev |-> "call", t |-> 50, arg |-> 2]
  /\ log[3] = [ev |-> "call", t |-> 90, arg |-> 3]
  /\ log[4] = [ev |-> "run", t |-> 90 + DebounceWait, arg |-> 3]

\* C4: a call outside an open window invokes func at once and opens a
\* window of limit ms; a call inside an open window is dropped and never
\* invoked later; func runs at most once per window.
WindowOpenBefore(p) ==
  \E r \in 1..(p - 1) :
    /\ log[r].ev = "run"
    /\ \A x \in (r + 1)..(p - 1) : log[x].ev # "reset"

C4_ThrottleLeadingEdge ==
  /\ \A p \in Calls :
       IF WindowOpenBefore(p)
       THEN p < Len(log) => log[p + 1].ev # "run"
       ELSE /\ p < Len(log)
            /\ log[p + 1] = [log[p] EXCEPT !.ev = "run"]
  /\ \A p \in Runs : p > 1 /\ log[p - 1] = [log[p] EXCEPT !.ev = "call"]
  /\ \A p, q \in Runs : p < q => log[q].t >= log[p].t + ThrottleLimit
  /\ \A p \in 1..Len(log) :
       log[p].ev = "reset" =>
         \E r \in Runs : /\ r < p
                         /\ log[r].arg = log[p].arg
                         /\ log[p].t = log[r].t + ThrottleLimit
  /\ inThrottle =>
       \E t \in timers : t.kind = "throttleReset" /\ t.due >= now

\* calls at 0, 5, 15: func runs at 0 and at 15, the call at 5 is dropped
C4_Witness ==
  /\ [p \in 1..Len(log) |-> <<log[p].ev, log[p].t>>] =
       << <<"call", 0>>, <<"run", 0>>, <<"call", 5>>, <<"reset", ThrottleLimit>>,
          <<"call", 15>>, <<"run", 15>> >>

\* ------------------------------------------------ TeqpodApp (page controller)
MinLoadTime == 2000  \* minimum time the loading screen stays
FadeDuration == 500  \* fadeOut(loadingScreen, 500)

PageMarkups ==
  {{"loading-screen"} \cup Kinds, Kinds, {"loading-screen"} \cup (Kinds \ {"stats"})}

SiteDocs ==
  {[k \in Kinds |-> IF k = "stats" THEN st ELSE other] :
     st \in {Absent, <<1>>, <<1, 2>>}, other \in {Absent, <<1>>}}

\* getElementById(id) as cacheElements() stores it
Element(id) == IF id \in domPresent THEN id ELSE Null

\* await Promise.race([...]) in the place of Promise.all
PromiseRace(loaded, elapsed) == loaded \/ elapsed

\* await Promise.all([this.loadSiteData(), minLoadTime])
PromiseAll(loaded, elapsed) == loaded /\ elapsed

\* renderContent(): nothing without siteData; a throwing render ends the
\* pass and is caught inside renderContent
renderContent(st, data) ==
  IF data = <<>> THEN st
  ELSE LET doc == data[1]
           r1 == renderStats(st, doc["stats"], Element("stats"))
           r2 == IF r1.x THEN r1
                 ELSE renderFeatures(r1, doc["features"], Element("features"))
           r3 == IF r2.x THEN r2
                 ELSE renderEvents(r2, doc["events"], Element("events"))
           r4 == IF r3.x THEN r3
                 ELSE renderContactInfo(r3, doc["contact"], Element("contact"))
           r5 == IF r4.x THEN r4
                 ELSE renderFooterLinks(r4, doc["footer"], Element("footer"))
       IN [r5 EXCEPT !.x = FALSE]

\* createModal(title, content): a string becomes a text node, so markup in
\* it is shown as text; only a node brings its own elements
createModal(ms, title, content) ==
  Append(ms, [title |-> title,
              reloadButton |-> content.type = "node" /\ content.reload])

\* the template literal handleError builds: markup with a reload button
ErrorContent == [type |-> "string", reload |-> TRUE]

\* the same looking the loading screen up in the document
HidesOnErrorFromDocument == "loading-screen" \in domPresent

\* handleError: if (this.elements.loadingScreen) ... display = 'none'
HidesOnError == elementsCached /\ "loading-screen" \in domPresent

handleError ==
  /\ loading' = IF HidesOnError THEN [loading EXCEPT !.display = "none"] ELSE loading
  /\ modals' = createModal(modals, "Error", ErrorContent)

NextRandom == Cardinality(handles) + 1

RECURSIVE DisconnectAll(_, _)
DisconnectAll(rd, hs) ==
  IF hs = <<>> THEN rd
  ELSE DisconnectAll(HandleDisconnect(rd.observers, rd.disconnected, Head(hs)),
                     Tail(hs))

\* AnimationSystem.cleanup(): every stored handle's disconnect()
AnimationSystem_cleanup(reg, disc, hs) ==
  DisconnectAll([observers |-> reg, disconnected |-> disc], hs)

RevealHandle == [observer |-> 1, id |-> <<0, 1>>]

\* querySelectorAll('.reveal') when AnimationSystem is constructed: the
\* reveal-flagged elements of the markup
StaticReveal == {<<"static", 1>>}

\* setupScrollReveal(): nothing under reduced motion; else every element
\* found is observed by the reveal observer
setupScrollReveal == IF reducedMotion THEN {}
                     ELSE {<<RevealHandle.observer, el, 0>> : el \in StaticReveal}

RevealStep == 100         \* parseInt(dataset.stagger) * 100

\* dataset.stagger of an element: rendered instances carry what their render
\* wrote, the elements of the markup carry none
StaggerOf(el) ==
  IF el[1] \in Kinds /\ el[2] \in DOMAIN containers[el[1]]
  THEN containers[el[1]][el[2]].stagger ELSE NoStagger

\* the callback of the reveal observer, for one entry
revealEntry(act, el, isIntersecting) ==
  IF ~isIntersecting THEN act
  ELSE MapSet(act, el, IF StaggerOf(el) # NoStagger
                       THEN StaggerOf(el) * RevealStep ELSE NoStagger)

\* the reveal observer delivers an entry for an element it observes
RevealIntersects(e, isIntersecting) ==
  /\ e \in watching
  /\ e[1] = RevealHandle.observer
  /\ e[1] \notin disconnected
  /\ active' = revealEntry(active, e[2], isIntersecting)
  /\ lastOp' = Op("reveal", isIntersecting, Null)
  /\ UNCHANGED <<now, domVars, utilVars, appVars, rafQueue, watching, shown, style,
                 effectCalls, formVars, pageVars>>

\* The page once its scripts have run: AnimationSystem is constructed (its
\* reveal observer registered unless reduced motion), ComponentSystem has
\* built its templates, TeqpodApp.init() waits for the fetch and the timer.
\* The DOM manager section is taken to be loaded before the sections whose
\* constructors use domManager (each section carries its own module.exports).
Init ==
  /\ reducedMotion \in BOOLEAN
  /\ domPresent \in PageMarkups
  /\ now = 0
  /\ timers = {[id |-> 1, due |-> MinLoadTime, kind |-> "minLoad", arg |-> <<>>]}
  /\ timerSeq = 1
  /\ observers = IF reducedMotion THEN EmptyMap
                 ELSE MapSet(EmptyMap, RevealHandle.id, RevealHandle.observer)
  /\ handles = IF reducedMotion THEN {} ELSE {RevealHandle}
  /\ animObservers = IF reducedMotion THEN <<>> ELSE <<RevealHandle>>
  /\ disconnected = {}
  /\ containers = [k \in Kinds |-> <<>>]
  /\ cloned = 0
  /\ threw = FALSE
  /\ timeout = 0
  /\ inThrottle = FALSE
  /\ log = <<>>
  /\ pc = "loading"
  /\ fetchState = "pending"
  /\ fetchCount = 1
  /\ minLoadDone = FALSE
  /\ siteData = <<>>
  /\ isInitialized = FALSE
  /\ elementsCached = FALSE
  /\ loading = Shown
  /\ modals = <<>>
  /\ initLog = <<>>
  /\ compTemplates = TemplateNames
  /\ domTemplates = {}
  /\ lastOp = Op("init", FALSE, Null)
  /\ rafQueue = <<>>
  /\ watching = setupScrollReveal
  /\ shown = EmptyMap
  /\ active = EmptyMap
  /\ style = Plain
  /\ effectCalls = 0
  /\ InitForm
  /\ InitPage

InitSteps ==
  <<"cacheElements", "renderContent", "bindEvents", "initializeComponents",
    "hideLoading">>

\* init() after the await: cacheElements, renderContent, bindEvents (whose
\* setupSectionObserver registers an observer), initializeComponents,
\* hideLoading.  Without a loading screen, or with reduced motion,
\* hideLoading is settled at once and init() completes in the same task.
InitContinues(st, data) ==
  LET rendered == renderContent(st, data)
      section == createIntersectionObserver(observers, NextRandom)
      fades == "loading-screen" \in domPresent /\ ~reducedMotion
  IN /\ elementsCached' = TRUE
     /\ SetDom(IF fades THEN setTimeout(rendered, "fade", <<>>, FadeDuration)
               ELSE rendered)
     /\ observers' = section.observers
     /\ handles' = handles \cup {section.handle}
     /\ loading' = IF "loading-screen" \notin domPresent THEN loading
                   ELSE IF reducedMotion THEN [opacity |-> "0", display |-> "none"]
                   ELSE [loading EXCEPT !.opacity = "0"]
     /\ pc' = IF fades THEN "fading" ELSE "done"
     /\ isInitialized' = (isInitialized \/ ~fades)
     /\ initLog' = initLog \o InitSteps \o (IF fades THEN <<>> ELSE <<"ready">>)
     /\ UNCHANGED modals

\* the catch of init(): handleError
InitFails ==
  /\ pc' = "failed"
  /\ handleError
  /\ UNCHANGED <<timers, timerSeq, containers, cloned, threw, observers, handles,
                 isInitialized, elementsCached, initLog>>

InitWaits ==
  UNCHANGED <<timers, timerSeq, containers, cloned, threw, observers, handles,
              isInitialized, elementsCached, initLog, pc, loading, modals>>

\* fetch() settles: a network error rejects, a non-2xx response throws
FetchResponds(outcome) ==
  /\ fetchState = "pending"
  /\ IF outcome = "ok"
     THEN fetchState' = "response" /\ InitWaits
     ELSE /\ fetchState' = "failed"
          /\ IF pc = "loading" THEN InitFails ELSE InitWaits
  /\ lastOp' = Op("fetch", outcome = "ok", Null)
  /\ UNCHANGED <<now, disconnected, utilVars, reducedMotion, domPresent, fetchCount,
                 minLoadDone, siteData, animObservers, compTemplates, domTemplates, uiVars>>

\* response.json() fails to parse
JsonFails ==
  /\ fetchState = "response"
  /\ fetchState' = "failed"
  /\ IF pc = "loading" THEN InitFails ELSE InitWaits
  /\ lastOp' = Op("json", FALSE, Null)
  /\ UNCHANGED <<now, disconnected, utilVars, reducedMotion, domPresent, fetchCount,
                 minLoadDone, siteData, animObservers, compTemplates, domTemplates, uiVars>>

\* response.json() yields the document
JsonParsed(doc) ==
  /\ fetchState = "response"
  /\ fetchState' = "ok"
  /\ siteData' = <<doc>>
  /\ IF pc = "loading" /\ PromiseAll(TRUE, minLoadDone)
     THEN InitContinues(DomState, <<doc>>)
     ELSE InitWaits
  /\ lastOp' = Op("json", TRUE, Null)
  /\ UNCHANGED <<now, disconnected, utilVars, reducedMotion, domPresent, fetchCount,
                 minLoadDone, animObservers, compTemplates, domTemplates, uiVars>>

MinLoadFires(t) ==
  /\ NextTimer(t)
  /\ t.kind = "minLoad"
  /\ minLoadDone' = TRUE
  /\ IF pc = "loading" /\ PromiseAll(fetchState = "ok", TRUE)
     THEN InitContinues([DomState EXCEPT !.t = @ \ {t}], siteData)
     ELSE /\ timers' = timers \ {t}
          /\ UNCHANGED <<timerSeq, containers, cloned, threw, observers, handles,
                         isInitialized, elementsCached, initLog, pc, loading, modals>>
  /\ lastOp' = Op("minLoad", TRUE, Null)
  /\ UNCHANGED <<now, disconnected, utilVars, reducedMotion, domPresent, fetchState,
                 fetchCount, siteData, animObservers, compTemplates, domTemplates, uiVars>>

\* hideLoading() after the fade: this.elements.loadingScreen.style.display =
\* 'none' raises a TypeError when destroy() has emptied this.elements
FadeFires(t) ==
  /\ NextTimer(t)
  /\ t.kind = "fade"
  /\ timers' = timers \ {t}
  /\ IF pc # "fading" THEN UNCHANGED <<pc, loading, modals, isInitialized, initLog>>
     ELSE IF elementsCached
     THEN /\ loading' = [loading EXCEPT !.display = "none"]
          /\ isInitialized' = TRUE
          /\ pc' = "done"
          /\ initLog' = Append(initLog, "ready")
          /\ UNCHANGED modals
     ELSE /\ pc' = "failed"
          /\ handleError
          /\ UNCHANGED <<isInitialized, initLog>>
  /\ lastOp' = Op("fade", TRUE, Null)
  /\ UNCHANGED <<now, timerSeq, observers, handles, disconnected, containers, cloned,
                 threw, utilVars, reducedMotion, domPresent, fetchState, fetchCount,
                 minLoadDone, siteData, elementsCached, animObservers,
                 compTemplates, domTemplates, uiVars>>

\* the callback renderStats deferred by index * 200 ms
CounterSetupFires(t) ==
  /\ NextTimer(t)
  /\ t.kind = "counterSetup"
  /\ timers' = timers \ {t}
  /\ LET made == setupCounterAnimation(observers, NextRandom) IN
       /\ observers' = made.observers
       /\ handles' = handles \cup {made.handle}
       /\ watching' = watching \cup {<<made.handle.observer, NumberEl(t.arg[3]), t.arg[1]>>}
  /\ lastOp' = Op("counterSetup", TRUE, Null)
  /\ UNCHANGED <<now, timerSeq, disconnected, containers, cloned, threw, utilVars,
                 appVars, rafQueue, shown, active, style, effectCalls, formVars, pageVars>>

\* destroy(): animationSystem.cleanup(), domManager.cleanup(), state reset
Destroy ==
  /\ LET a == AnimationSystem_cleanup(observers, disconnected, animObservers)
         d == DOMManager_cleanup(a.observers, a.disconnected)
     IN /\ observers' = d.observers
        /\ disconnected' = d.disconnected
  /\ animObservers' = <<>>
  /\ domTemplates' = {}
  /\ isInitialized' = FALSE
  /\ siteData' = <<>>
  /\ elementsCached' = FALSE
  /\ lastOp' = Op("destroy", isInitialized, Null)
  /\ UNCHANGED <<now, timers, timerSeq, handles, containers, cloned, threw, utilVars,
                 reducedMotion, domPresent, pc, fetchState, fetchCount, minLoadDone,
                 loading, modals, initLog, compTemplates, uiVars>>

Next ==
  \/ \E outcome \in {"ok", "network", "http"} : FetchResponds(outcome)
  \/ JsonFails
  \/ \E doc \in SiteDocs : JsonParsed(doc)
  \/ \E t \in timers : MinLoadFires(t)
  \/ \E t \in timers : FadeFires(t)
  \/ \E t \in timers : CounterSetupFires(t)
  \/ \E e \in watching, b \in BOOLEAN : RevealIntersects(e, b)
  \/ Destroy
  \/ AdvanceTime

Spec == Init /\ [][Next]_vars

\* C7: the controller is ready only after the fetch has succeeded and the
\* minimum-loading timer has fired, and after elements were cached, the
\* sections rendered and the listeners bound, in that order.
SectionsRendered ==
  siteData # <<>> =>
    \A k \in Kinds :
      (k \in domPresent /\ siteData[1][k] # Absent)
        => /\ Len(containers[k]) = Len(siteData[1][k])
           /\ \A i \in 1..Len(containers[k]) :
                containers[k][i].rec = siteData[1][k][i]

C8_FetchFailureIsFatal ==
  fetchState = "failed" =>
    /\ pc = "failed"
    /\ ~isInitialized
    /\ \A k \in Kinds : containers[k] = <<>>
    /\ Len(modals) = 1
    /\ modals[1].reloadButton
    /\ fetchCount = 1

C10_DestroyClearsAll ==
  (lastOp.op = "destroy" /\ lastOp.given) =>
    /\ ~isInitialized
    /\ siteData = <<>>
    /\ \A h \in handles : h.observer \in disconnected
    /\ observers = EmptyMap
    /\ compTemplates = {}

\* ------------------------------------------- AnimationSystem: stat counters
CounterDuration == 2000   \* animateCounter(element, target, suffix = '', duration = 2000)
MaxChains == 2            \* counter animations started in one behaviour
FrameSteps == {500, 750}  \* milliseconds from one animation frame to the next
CallTargets == {<<"4", "2">>, <<"7">>}
CallSuffixes == {<<"%">>}
CallDurations == {1000, CounterDuration}

RECURSIVE GCD(_, _)
GCD(a, b) == IF b = 0 THEN a ELSE GCD(b, a % b)

Pow4(x) == x * x * x * x

\* the same with a linear ramp in the place of the quartic ease-out
CounterValueLinear(targetNum, elapsed, duration) ==
  IF targetNum = NaN THEN NaN
  ELSE LET e == IF elapsed > duration THEN duration ELSE elapsed
       IN (targetNum * e) \div duration

\* Math.floor(start + targetNum * easeOutQuart) with progress =
\* Math.min(elapsed / duration, 1), in exact arithmetic on the reduced
\* fraction elapsed / duration
CounterValue(targetNum, elapsed, duration) ==
  IF targetNum = NaN THEN NaN
  ELSE LET e == IF elapsed > duration THEN duration ELSE elapsed
           g == GCD(duration, e)
           p == e \div g
           q == duration \div g
       IN (targetNum * (Pow4(q) - Pow4(q - p))) \div Pow4(q)

MotionState == [c |-> containers, q |-> rafQueue, shown |-> shown,
                style |-> style, t |-> timers, s |-> timerSeq]

SetMotion(ms) ==
  /\ containers' = ms.c
  /\ rafQueue' = ms.q
  /\ shown' = ms.shown
  /\ style' = ms.style
  /\ timers' = ms.t
  /\ timerSeq' = ms.s

\* element.textContent = text, on the number element of a stat card
SetText(c, el, text) ==
  [c EXCEPT !["stats"] =
     [i \in DOMAIN @ |-> IF NumberEl(@[i].node) = el
                         THEN [@[i] EXCEPT !.number = text] ELSE @[i]]]

Displayed(ms, chain, el, elapsed, text) ==
  [ms EXCEPT !.c = SetText(@, el, text),
             !.shown[chain].writes = Append(@, [e |-> elapsed, text |-> text])]

NewChain(ms, el, target, suffix, duration, by) ==
  [ms EXCEPT !.shown = MapSet(@, Cardinality(DOMAIN @) + 1,
                              [el |-> el, target |-> target, suffix |-> suffix,
                               duration |-> duration, by |-> by, writes |-> <<>>])]

\* animateCounter(element, target, suffix, duration), up to its first
\* requestAnimationFrame
animateCounter(ms, el, target, suffix, duration, by) ==
  LET chain == Cardinality(DOMAIN ms.shown) + 1
      started == NewChain(ms, el, target, suffix, duration, by)
  IN IF reducedMotion
     THEN Displayed(started, chain, el, 0, target \o suffix)
     ELSE [started EXCEPT !.q = Append(@,
             [kind |-> "counter", chain |-> chain, el |-> el, start |-> now,
              target |-> target, suffix |-> suffix,
              num |-> parseInt(DigitsOnly(target)), duration |-> duration])]

\* animate(currentTime): the frame callback of animateCounter
animate(ms, cb, currentTime) ==
  LET elapsed == currentTime - cb.start
      current == CounterValue(cb.num, elapsed, cb.duration)
  IN IF elapsed < cb.duration
     THEN [Displayed(ms, cb.chain, cb.el, elapsed, ToText(current) \o cb.suffix)
             EXCEPT !.q = Append(@, cb)]
     ELSE Displayed(ms, cb.chain, cb.el, elapsed, cb.target \o cb.suffix)

\* ---------------------------------- fadeIn / fadeOut / slideUp / scale
FadeInDuration == 300     \* fadeIn / fadeOut / scale (element, duration = 300)
ScaleFrom == "scale(0.9)"
ScaleTo == "scale(1)"

\* the same without the reduced-motion branch
fadeInAlwaysAnimates(ms) ==
  [ms EXCEPT !.style.opacity = "0", !.style.transition = "opacity",
             !.q = Append(@, [kind |-> "fadeIn"])]

fadeIn(ms) ==
  IF reducedMotion THEN [ms EXCEPT !.style.opacity = "1"]
  ELSE [ms EXCEPT !.style.opacity = "0", !.style.transition = "opacity",
                  !.q = Append(@, [kind |-> "fadeIn"])]

\* the same resolving with no delay
fadeOutResolvesAtOnce(ms, duration) ==
  IF reducedMotion THEN [ms EXCEPT !.style.opacity = "0"]
  ELSE setTimeout([ms EXCEPT !.style.opacity = "0", !.style.transition = "opacity"],
                  "fade", <<>>, 0)

\* the promise of fadeOut settles at once under reduced motion, else when
\* its timer fires
fadeOut(ms, duration) ==
  IF reducedMotion THEN [ms EXCEPT !.style.opacity = "0"]
  ELSE setTimeout([ms EXCEPT !.style.opacity = "0", !.style.transition = "opacity"],
                  "fade", <<>>, duration)

slideUp(ms) ==
  IF reducedMotion THEN [ms EXCEPT !.style.active = TRUE]
  ELSE [ms EXCEPT !.style.transform = "translateY(30px)", !.style.opacity = "0",
                  !.style.transition = "all",
                  !.q = Append(@, [kind |-> "slideUp"])]

scale(ms) ==
  IF reducedMotion THEN [ms EXCEPT !.style.transform = ScaleTo]
  ELSE [ms EXCEPT !.style.transform = ScaleFrom, !.style.transition = "transform",
                  !.q = Append(@, [kind |-> "scale"])]

\* the callback each effect hands to requestAnimationFrame
effectFrame(ms, cb) ==
  CASE cb.kind = "fadeIn" -> [ms EXCEPT !.style.opacity = "1"]
    [] cb.kind = "slideUp" -> [ms EXCEPT !.style.transform = "translateY(0)",
                                         !.style.opacity = "1"]
    [] cb.kind = "scale" -> [ms EXCEPT !.style.transform = ScaleTo]

\* one animation frame: the callbacks requested before it run in order
RECURSIVE RunFrame(_, _, _)
RunFrame(ms, queue, currentTime) ==
  IF queue = <<>> THEN ms
  ELSE RunFrame(IF Head(queue).kind = "counter"
                THEN animate(ms, Head(queue), currentTime)
                ELSE effectFrame(ms, Head(queue)),
                Tail(queue), currentTime)

\* the same leaving the element observed
CounterIntersectingKeeps(w, e) == w

\* observer.unobserve(element) in the callback of setupCounterAnimation
CounterIntersecting(w, e) == w \ {e}

\* the IntersectionObserver of a stat delivers an entry for its element
CounterIntersects(e, isIntersecting) ==
  /\ e \in watching
  /\ e[2][1] = "number"
  /\ e[1] \notin disconnected
  /\ isIntersecting => Cardinality(DOMAIN shown) < MaxChains
  /\ IF isIntersecting
     THEN /\ SetMotion(animateCounter(MotionState, e[2],
                         Stat(e[3]).number \o Stat(e[3]).suffix, <<>>,
                         CounterDuration, "observer"))
          /\ watching' = CounterIntersecting(watching, e)
     ELSE UNCHANGED <<containers, rafQueue, shown, style, timers, timerSeq,
                      watching, formVars, pageVars>>
  /\ lastOp' = Op("intersect", isIntersecting, Null)
  /\ UNCHANGED <<now, observers, handles, disconnected, cloned, threw, utilVars,
                 appVars, active, effectCalls, formVars, pageVars>>

\* animationSystem.animateCounter(element, target, suffix, duration) called
\* on a rendered number element
AnimateCounterCall(el, target, suffix, duration) ==
  /\ Cardinality(DOMAIN shown) < MaxChains
  /\ \E i \in DOMAIN containers["stats"] : NumberEl(containers["stats"][i].node) = el
  /\ SetMotion(animateCounter(MotionState, el, target, suffix, duration, "call"))
  /\ lastOp' = Op("animateCounter", TRUE, Null)
  /\ UNCHANGED <<now, observers, handles, disconnected, cloned, threw, utilVars,
                 appVars, watching, active, effectCalls, formVars, pageVars>>

\* the next frame comes d ms later; no timer is due before it
FrameFires(d) ==
  /\ rafQueue # <<>>
  /\ \A t \in timers : t.due >= now + d
  /\ now' = now + d
  /\ SetMotion(RunFrame([MotionState EXCEPT !.q = <<>>], rafQueue, now + d))
  /\ lastOp' = Op("frame", TRUE, Null)
  /\ UNCHANGED <<observers, handles, disconnected, cloned, threw, utilVars, appVars,
                 watching, active, effectCalls, formVars, pageVars>>

InitMotionPage == InitIdle /\ reducedMotion \in BOOLEAN

\* renderContent() renders the stats once, into the empty container
RenderStatsOnce(records) ==
  /\ cloned = 0
  /\ RenderCall("stats", records, "stats")

NextMotion ==
  \/ \E records \in RecordLists : RenderStatsOnce(records)
  \/ \E t \in timers : CounterSetupFires(t)
  \/ \E e \in watching, b \in BOOLEAN : CounterIntersects(e, b)
  \/ \E d \in FrameSteps : FrameFires(d)
  \/ AdvanceTime

SpecMotion == InitMotionPage /\ [][NextMotion]_vars

\* one counter at a time: the next call comes when no frame is requested
CounterCall(el, target, suffix, duration) ==
  /\ rafQueue = <<>>
  /\ timers = {}
  /\ AnimateCounterCall(el, target, suffix, duration)

NextCounter ==
  \/ \E records \in RecordLists : RenderStatsOnce(records)
  \/ \E t \in timers : CounterSetupFires(t)
  \/ \E target \in CallTargets, suffix \in CallSuffixes, duration \in CallDurations :
       CounterCall(NumberEl(1), target, suffix, duration)
  \/ \E d \in FrameSteps : FrameFires(d)
  \/ AdvanceTime

SpecCounter == InitMotionPage /\ [][NextCounter]_vars

\* C11: a counter animation with integer target T and duration D displays,
\* at every elapsed time below D, an integer of 0..T on the quartic ease-out
\* curve, never less than the one before; from elapsed time D on it shows
\* the literal target plus suffix and requests no further frame.
OnCurve(v, T, e, D) ==
  LET g == GCD(D, e)
      p == e \div g
      q == D \div g
      area == T * (Pow4(q) - Pow4(q - p))
  IN v * Pow4(q) <= area /\ area < (v + 1) * Pow4(q)

Pending(chain) == {i \in 1..Len(rafQueue) : rafQueue[i].chain = chain}

CounterFollowsCurve(ch) ==
  LET T == parseInt(DigitsOnly(ch.target))
      w == ch.writes
  IN /\ \A i \in 1..Len(w) :
          IF w[i].e < ch.duration
          THEN \E v \in 0..T : /\ w[i].text = ToText(v) \o ch.suffix
                               /\ OnCurve(v, T, w[i].e, ch.duration)
          ELSE /\ w[i].text = ch.target \o ch.suffix
               /\ i = Len(w)
     /\ \A i, j \in 1..Len(w) :
          (i < j /\ w[j].e < ch.duration)
            => w[i].e < w[j].e /\ parseInt(w[i].text) <= parseInt(w[j].text)

C11_CounterFollowsEaseOut ==
  ~reducedMotion =>
    \A c \in DOMAIN shown :
      /\ CounterFollowsCurve(shown[c])
      /\ Cardinality(Pending(c)) =
           IF \E i \in 1..Len(shown[c].writes) :
                shown[c].writes[i].e >= shown[c].duration
           THEN 0 ELSE 1

\* target "42", suffix "%", duration 1000: 39% at 500 ms, 42% at 1000 ms
C11_Witness ==
  \E c \in DOMAIN shown :
    /\ shown[c].by = "call"
    /\ shown[c].target = <<"4", "2">>
    /\ shown[c].writes = << [e |-> 500, text |-> <<"3", "9", "%">>],
                            [e |-> 1000, text |-> <<"4", "2", "%">>] >>
    /\ \E i \in DOMAIN containers["stats"] :
         containers["stats"][i].number = <<"4", "2", "%">>

\* C12: a rendered stat shows its label and "0" + suffix; the number slot
\* keeps that text until its observer reports the element visible, and the
\* count started then ends on number + suffix.
ChainsOf(el) == {c \in DOMAIN shown : shown[c].el = el}

Finished(c) ==
  \E i \in 1..Len(shown[c].writes) :
    shown[c].writes[i].text = shown[c].target \o shown[c].suffix

C12_StatZeroUntilVisible ==
  \A i \in DOMAIN containers["stats"] :
    LET card == containers["stats"][i]
        stat == Stat(card.rec)
        chains == ChainsOf(NumberEl(card.node))
    IN /\ card.label = stat.label
       /\ chains = {} => card.number = <<"0">> \o stat.suffix
       /\ \A c \in chains :
            /\ shown[c].by = "observer"
            /\ shown[c].target = stat.number \o stat.suffix
            /\ ~Finished(c) => Pending(c) # {} /\ ~reducedMotion
       /\ (chains # {} /\ \A c \in chains : Finished(c))
            => card.number = stat.number \o stat.suffix

\* the stat {"42", "%", "Growth"}: "0%" while another stat already counts,
\* and "42%" at the end of its own count
C12_WitnessBefore ==
  \E i, j \in DOMAIN containers["stats"] :
    /\ containers["stats"][i].label = "Growth"
    /\ containers["stats"][i].number = <<"0", "%">>
    /\ ChainsOf(NumberEl(containers["stats"][i].node)) = {}
    /\ ChainsOf(NumberEl(containers["stats"][j].node)) # {}

C12_Witness ==
  \E i \in DOMAIN containers["stats"] :
    /\ containers["stats"][i].label = "Growth"
    /\ containers["stats"][i].number = <<"4", "2", "%">>
    /\ \E c \in ChainsOf(NumberEl(containers["stats"][i].node)) :
         Len(shown[c].writes) >= 3

\* C13: over any sequence of intersection events the count of a stat number
\* element is started at most once, and once it has started the element is
\* no longer observed.
ObserverChains(el) == {c \in ChainsOf(el) : shown[c].by = "observer"}

MaxEffects == 2           \* effect calls in one behaviour
Effects == {"fadeIn", "fadeOut", "slideUp", "scale"}

effect(name, ms) ==
  CASE name = "fadeIn" -> fadeIn(ms)
    [] name = "fadeOut" -> fadeOut(ms, FadeInDuration)
    [] name = "slideUp" -> slideUp(ms)
    [] name = "scale" -> scale(ms)

EffectCall(name) ==
  /\ effectCalls < MaxEffects
  /\ effectCalls' = effectCalls + 1
  /\ SetMotion(effect(name, MotionState))
  /\ lastOp' = Op(name, TRUE, Null)
  /\ UNCHANGED <<now, observers, handles, disconnected, cloned, threw, utilVars,
                 appVars, watching, active, formVars, pageVars>>

\* the page once AnimationSystem is constructed, before the controller starts
InitEffects ==
  /\ reducedMotion \in BOOLEAN
  /\ domPresent = {"loading-screen"} \cup Kinds
  /\ now = 0
  /\ timers = {}
  /\ timerSeq = 0
  /\ observers = IF reducedMotion THEN EmptyMap
                 ELSE MapSet(EmptyMap, RevealHandle.id, RevealHandle.observer)
  /\ handles = IF reducedMotion THEN {} ELSE {RevealHandle}
  /\ animObservers = IF reducedMotion THEN <<>> ELSE <<RevealHandle>>
  /\ disconnected = {}
  /\ containers = [k \in Kinds |-> <<>>]
  /\ cloned = 0
  /\ threw = FALSE
  /\ timeout = 0
  /\ inThrottle = FALSE
  /\ log = <<>>
  /\ pc = "unstarted"
  /\ fetchState = "idle"
  /\ fetchCount = 0
  /\ minLoadDone = FALSE
  /\ siteData = <<>>
  /\ isInitialized = FALSE
  /\ elementsCached = FALSE
  /\ loading = Shown
  /\ modals = <<>>
  /\ initLog = <<>>
  /\ compTemplates = TemplateNames
  /\ domTemplates = {}
  /\ lastOp = Op("init", FALSE, Null)
  /\ rafQueue = <<>>
  /\ watching = setupScrollReveal
  /\ shown = EmptyMap
  /\ active = EmptyMap
  /\ style = Plain
  /\ effectCalls = 0
  /\ InitForm
  /\ InitPage

NextEffects ==
  \/ \E name \in Effects : EffectCall(name)
  \/ \E e \in watching, b \in BOOLEAN : RevealIntersects(e, b)
  \/ \E d \in FrameSteps : FrameFires(d)
  \/ \E t \in timers : FadeFires(t)
  \/ AdvanceTime

SpecEffects == InitEffects /\ [][NextEffects]_vars

\* C14: with reduced motion every animated transition is in its end state
\* at once: no frame and no timer is requested, each effect call leaves the
\* element in its end state, a counter shows target plus suffix as its only
\* text, and the reveal-flagged elements are in their active state.
EffectsImmediate ==
  /\ rafQueue = <<>>
  /\ timers = {}
  /\ lastOp.op = "fadeIn" => style.opacity = "1"
  /\ lastOp.op = "fadeOut" => style.opacity = "0"
  /\ lastOp.op = "slideUp" => style.active
  /\ lastOp.op = "scale" => style.transform = ScaleTo

CountersImmediate ==
  \A c \in DOMAIN shown :
    shown[c].writes = <<[e |-> 0, text |-> shown[c].target \o shown[c].suffix]>>

RevealImmediate == \A el \in StaticReveal : el \in DOMAIN active

C14_ReducedMotionImmediate ==
  reducedMotion => EffectsImmediate /\ CountersImmediate /\ RevealImmediate

\* C15: every reveal-flagged element, those of the markup and every
\* rendered instance, is observed by the reveal observer, and an element
\* that has intersected is active, with transition delay index * 100 ms
\* when it carries a stagger index.
RevealFlagged ==
  StaticReveal \cup
    UNION {{<<k, i>> : i \in DOMAIN containers[k]} : k \in Kinds \ {"footer"}}

RevealedWithDelay ==
  \A el \in DOMAIN active :
    active[el] = IF StaggerOf(el) = NoStagger THEN NoStagger
                 ELSE StaggerOf(el) * RevealStep

C15_RevealObservesAll ==
  (~reducedMotion /\ RevealHandle.observer \notin disconnected) =>
    /\ \A el \in RevealFlagged : <<RevealHandle.observer, el, 0>> \in watching
    /\ RevealedWithDelay

\* --------------------------------------------- TeqpodApp: contact form
MaxSubmits == 2           \* submit events in one behaviour
SubmitDelay == 2000       \* setTimeout(..., 2000) in submitForm
SendingText == "Sending..."

FieldValues ==
  {<<>>, <<" ">>, <<"a">>, <<"a", "@", "a">>, <<"a", "@", "a", ".", "a">>}

Field(type, required) ==
  [type |-> type, required |-> required, value |-> <<>>, error |-> FALSE]

\* the .form-input fields of the markup, each in a .form-group of its own
FormShapes ==
  {<<Field("text", TRUE), Field("email", TRUE)>>,
   <<Field("text", TRUE), Field("email", FALSE)>>,
   <<Field("text", FALSE), Field("email", TRUE)>>}

\* String.prototype.trim()
RECURSIVE trimStart(_)
trimStart(str) ==
  IF str # <<>> /\ Head(str) = " " THEN trimStart(Tail(str)) ELSE str

RECURSIVE trimEnd(_)
trimEnd(str) ==
  IF str # <<>> /\ str[Len(str)] = " "
  THEN trimEnd(SubSeq(str, 1, Len(str) - 1)) ELSE str

trim(str) == trimEnd(trimStart(str))

\* /^[^\s@]+@[^\s@]+\.[^\s@]+$/.test(value)
emailRegexTest(value) ==
  \E at \in 1..Len(value) :
    /\ value[at] = "@"
    /\ at > 1
    /\ \A i \in 1..Len(value) : value[i] # " " /\ (value[i] = "@" => i = at)
    /\ \E dot \in (at + 2)..(Len(value) - 1) : value[dot] = "."

\* validateField(field): the verdict
fieldIsValid(field) ==
  LET value == trim(field.value)
  IN /\ ~(field.required /\ value = <<>>)
     /\ ~(field.type = "email" /\ value # <<>> /\ ~emailRegexTest(value))

\* validateField(field): the error class of its form group follows the verdict
validateField(field) == [field EXCEPT !.error = ~fieldIsValid(field)]

\* validateForm(form): only the fields matching .form-input[required]
validateForm(fields) ==
  [valid |-> \A i \in DOMAIN fields : fields[i].required => fieldIsValid(fields[i]),
   fields |-> [i \in DOMAIN fields |->
                 IF fields[i].required THEN validateField(fields[i]) ELSE fields[i]]]

\* resetForm(form): form.reset() and the error classes cleared
resetForm(fields) ==
  [i \in DOMAIN fields |-> [fields[i] EXCEPT !.value = <<>>, !.error = FALSE]]

FormState == [form |-> form, btn |-> submitBtn, notes |-> notifications,
              t |-> timers, s |-> timerSeq, x |-> threw]

SetForm(fs) ==
  /\ form' = fs.form
  /\ submitBtn' = fs.btn
  /\ notifications' = fs.notes
  /\ timers' = fs.t
  /\ timerSeq' = fs.s
  /\ threw' = fs.x

\* handleFormSubmit(e) up to its await: submitBtn.textContent raises a
\* TypeError when the form has no submit button
handleFormSubmit(fs) ==
  IF ~fs.btn.present THEN [fs EXCEPT !.x = TRUE]
  ELSE LET checked == validateForm(fs.form)
       IN IF ~checked.valid
          THEN [fs EXCEPT !.form = checked.fields, !.notes = Append(@, "error")]
          ELSE setTimeout([fs EXCEPT !.form = checked.fields,
                                     !.btn.text = SendingText,
                                     !.btn.disabled = TRUE,
                                     !.btn.loading = TRUE],
                          "submit", <<IF fs.btn.text = SendingText THEN 1 ELSE 0>>,
                          SubmitDelay)

\* the button text the handler read before submitting
OriginalText(t) == IF t.arg[1] = 1 THEN SendingText ELSE ButtonText

\* the same resetting the form whatever the outcome
submitSettlesAlwaysResets(fs, t, ok) ==
  [fs EXCEPT !.t = @ \ {t},
             !.notes = Append(@, IF ok THEN "success" ELSE "error"),
             !.form = resetForm(@),
             !.btn.text = OriginalText(t),
             !.btn.disabled = FALSE,
             !.btn.loading = FALSE]

\* handleFormSubmit(e) after the await: success, catch, finally
submitSettles(fs, t, ok) ==
  [fs EXCEPT !.t = @ \ {t},
             !.notes = Append(@, IF ok THEN "success" ELSE "error"),
             !.form = IF ok THEN resetForm(@) ELSE @,
             !.btn.text = OriginalText(t),
             !.btn.disabled = FALSE,
             !.btn.loading = FALSE]

\* the user types into field i: the input listener validates the field
Input(i, value) ==
  /\ "contact-form" \in domPresent
  /\ i \in DOMAIN form
  /\ form[i].value # value
  /\ form' = [form EXCEPT ![i] = validateField([@ EXCEPT !.value = value])]
  /\ lastOp' = Op("input", TRUE, Null)
  /\ UNCHANGED <<now, domVars, utilVars, appVars, motionVars, submitBtn,
                 notifications, submits, pageVars>>

\* a submit event; the browser submits no form through a disabled button
Submit ==
  /\ "contact-form" \in domPresent
  /\ submits < MaxSubmits
  /\ ~submitBtn.disabled
  /\ submits' = submits + 1
  /\ SetForm(handleFormSubmit(FormState))
  /\ lastOp' = Op("submit", validateForm(form).valid, Null)
  /\ UNCHANGED <<now, observers, handles, disconnected, containers, cloned, utilVars,
                 appVars, motionVars, pageVars>>

\* the timer of submitForm fires: Math.random() > 0.1 resolves, else rejects
SubmitSettles(t, ok) ==
  /\ NextTimer(t)
  /\ t.kind = "submit"
  /\ SetForm(submitSettles(FormState, t, ok))
  /\ lastOp' = Op("settled", ok, Null)
  /\ UNCHANGED <<now, observers, handles, disconnected, containers, cloned, utilVars,
                 appVars, motionVars, submits, pageVars>>

InitFormPage ==
  /\ domPresent = {"contact-form"}
  /\ InitAppState
  /\ reducedMotion = FALSE
  /\ now = 0
  /\ timers = {}
  /\ timerSeq = 0
  /\ observers = EmptyMap
  /\ handles = {}
  /\ disconnected = {}
  /\ containers = [k \in Kinds |-> <<>>]
  /\ cloned = 0
  /\ threw = FALSE
  /\ timeout = 0
  /\ inThrottle = FALSE
  /\ log = <<>>
  /\ lastOp = Op("init", FALSE, Null)
  /\ InitMotion
  /\ form \in FormShapes
  /\ submitBtn = IdleButton
  /\ notifications = <<>>
  /\ submits = 0
  /\ InitPage

NextForm ==
  \/ \E i \in 1..2, value \in FieldValues : Input(i, value)
  \/ Submit
  \/ \E t \in timers, ok \in BOOLEAN : SubmitSettles(t, ok)
  \/ AdvanceTime

SpecForm == InitFormPage /\ [][NextForm]_vars

\* a required field that is empty, or an email field that is malformed
Offending(field) == ~fieldIsValid(field)

SubmitStep == submits' = submits + 1

Blocked ==
  /\ timers' = timers
  /\ ~submitBtn'.disabled
  /\ ~submitBtn'.loading

\* C16: a submit of a form with an offending field (a required field empty,
\* an email field malformed) is blocked: no simulated submit is started, the
\* button is neither disabled nor loading, every field group carries the
\* error class exactly when its field offends, and nothing is thrown.
C16_InvalidSubmitBlocked ==
  [][(SubmitStep /\ \E i \in DOMAIN form : Offending(form[i]))
       => /\ Blocked
          /\ \A i \in DOMAIN form : form'[i].error = Offending(form[i])
          /\ form' = [i \in DOMAIN form |-> [form[i] EXCEPT !.error = Offending(form[i])]]
          /\ ~threw']_vars

\* what the code does guarantee: an offending required field blocks the submit
RequiredInvalidBlocked ==
  [][(SubmitStep /\ \E i \in DOMAIN form : form[i].required /\ Offending(form[i]))
       => /\ Blocked
          /\ \A i \in DOMAIN form :
               form[i].required => form'[i].error = Offending(form[i])
          /\ ~threw']_vars

SettleStep == lastOp'.op = "settled" /\ timers' # timers

ButtonEnabled(btn) == ~btn.disabled /\ ~btn.loading /\ btn.text # SendingText

\* C17: when the simulated submission rejects, an error notification is
\* shown, every field keeps its value and the button is enabled again with
\* its own text; the form is reset when, and only when, it resolves.
C17_RejectKeepsForm ==
  [][SettleStep =>
       /\ ButtonEnabled(submitBtn')
       /\ Len(notifications') = Len(notifications) + 1
       /\ IF lastOp'.given
          THEN /\ notifications'[Len(notifications')] = "success"
               /\ form' = resetForm(form)
          ELSE /\ notifications'[Len(notifications')] = "error"
               /\ form' = form]_vars

\* a rejected submission has left a filled form behind, ready to be sent again
C17_Witness ==
  /\ lastOp.op = "settled"
  /\ ~lastOp.given
  /\ \A i \in DOMAIN form : form[i].value # <<>>
  /\ notifications # <<>>
  /\ notifications[Len(notifications)] = "error"
  /\ ButtonEnabled(submitBtn)
  /\ submits < MaxSubmits

\* ------------------------------------------- DOMManager.waitForElement
WaitTimeouts == {1000, 5000}     \* the timeout argument; 5000 is its default
WaitSteps == {400, 2500}         \* gaps between events, besides waiting for the timer
WaitMaxTime == 8000
MaxWaits == 2                    \* waitForElement calls, one after the other

\* resolve(element) / reject(error) of the promise: the first call settles it
settle(w, call) ==
  [w EXCEPT !.calls = Append(@, call),
            !.promise = IF @ # "pending" THEN @
                        ELSE IF call = "resolve" THEN "resolved" ELSE "rejected"]

\* observer.disconnect()
disconnect(w) == [w EXCEPT !.observer = "disconnected"]

\* the MutationObserver callback: runs for child-list changes below body
\* while the observer is connected
mutationCallback(w, found) ==
  IF w.observer # "observing" THEN w
  ELSE IF found THEN settle(disconnect(w), "resolve")
  ELSE w

\* waitForElement(selector, timeout)
WaitForElement(ms) ==
  /\ wait.promise # "pending"
  /\ wait.n < MaxWaits
  /\ timers = {}
  /\ LET started == [NoWait EXCEPT !.promise = "pending", !.due = now + ms,
                                   !.n = wait.n + 1]
     IN IF matching
        THEN /\ wait' = settle(started, "resolve")
             /\ UNCHANGED <<timers, timerSeq>>
        ELSE /\ wait' = [started EXCEPT !.observer = "observing"]
             /\ SetDom(setTimeout(DomState, "waitTimeout", <<0>>, ms))
  /\ lastOp' = Op("waitForElement", matching, Null)
  /\ UNCHANGED <<now, observers, handles, disconnected, containers, cloned, threw,
                 utilVars, appVars, motionVars, formVars, navVars, loader,
                 matching>>

\* a node matching the selector is inserted below body
ElementInserted ==
  /\ ~matching
  /\ matching' = TRUE
  /\ wait' = mutationCallback(wait, TRUE)
  /\ lastOp' = Op("inserted", TRUE, Null)
  /\ UNCHANGED <<now, domVars, utilVars, appVars, motionVars, formVars, navVars,
                 loader>>

\* the matching node is removed
ElementRemoved ==
  /\ matching
  /\ matching' = FALSE
  /\ wait' = mutationCallback(wait, FALSE)
  /\ lastOp' = Op("removed", TRUE, Null)
  /\ UNCHANGED <<now, domVars, utilVars, appVars, motionVars, formVars, navVars,
                 loader>>

\* a node already in the document starts to match the selector (it is given
\* the class or id): an attribute change, which { childList, subtree } does
\* not report
ElementRetagged ==
  /\ ~matching
  /\ matching' = TRUE
  /\ lastOp' = Op("retagged", TRUE, Null)
  /\ UNCHANGED <<now, domVars, utilVars, appVars, motionVars, formVars, navVars,
                 loader, wait>>

\* some other node is inserted below body
OtherInserted ==
  /\ wait.observer = "observing"
  /\ wait' = mutationCallback(wait, matching)
  /\ lastOp' = Op("other", matching, Null)
  /\ UNCHANGED <<now, domVars, utilVars, appVars, motionVars, formVars, navVars, loader,
                 matching>>

\* the timer of waitForElement fires
WaitTimeoutFires(t) ==
  /\ NextTimer(t)
  /\ t.kind = "waitTimeout"
  /\ timers' = timers \ {t}
  /\ wait' = settle(disconnect(wait), "reject")
  /\ lastOp' = Op("waitTimeout", TRUE, Null)
  /\ UNCHANGED <<now, timerSeq, observers, handles, disconnected, containers, cloned,
                 threw, utilVars, appVars, motionVars, formVars, navVars, loader,
                 matching>>

NextWait ==
  \/ \E ms \in WaitTimeouts : WaitForElement(ms)
  \/ ElementInserted
  \/ ElementRemoved
  \/ ElementRetagged
  \/ OtherInserted
  \/ \E t \in timers : WaitTimeoutFires(t)
  \/ \E d \in WaitSteps : Elapse(d, WaitMaxTime)
  \/ AdvanceTime

SpecWait == InitDom /\ [][NextWait]_vars

Settled(w) == w.promise \in {"resolved", "rejected"}

WaitCallStep == wait'.n = wait.n + 1

\* an element matching the selector comes to be in the document while the
\* call is waiting and its timeout has not passed
AppearsInTime == ~matching /\ matching' /\ wait.promise = "pending" /\ now < wait.due

\* what holds of every step whatever made the element appear
WaitSettlesOnce ==
  /\ WaitCallStep =>
       wait'.promise = IF matching THEN "resolved" ELSE "pending"
  /\ (wait.promise = "pending" /\ wait'.promise = "rejected") =>
       /\ lastOp'.op = "waitTimeout"
       /\ now = wait.due
       /\ wait'.calls = <<"reject">>
  /\ (lastOp'.op = "waitTimeout" /\ wait.promise = "pending") =>
       wait'.promise = "rejected"
  /\ (Settled(wait) /\ ~WaitCallStep) => wait'.promise = wait.promise
  /\ Settled(wait') => wait'.observer # "observing"

\* C18: waitForElement resolves when the element is there at the call or
\* appears before the timeout, and otherwise rejects at the timeout; the
\* promise is settled once (a later timeout leaves a resolved promise
\* resolved), and once it is settled the mutation observer is disconnected.
C18_WaitForElement ==
  [][/\ WaitSettlesOnce
     /\ AppearsInTime => wait'.promise = "resolved"]_vars

\* the same where the element appears by being inserted below body
InsertedElementResolves ==
  [][/\ WaitSettlesOnce
     /\ (AppearsInTime /\ lastOp'.op = "inserted") => wait'.promise = "resolved"]_vars

\* ------------------------------------------ TeqpodApp: bound handlers
OptionalTargets ==
  {"nav-menu", "mobile-menu-toggle", "navbar", "loading-screen", "cursor",
   "contact-form"}

ClickTargets == {"nav-menu", "mobile-menu-toggle", "elsewhere"}
Keys == {"Escape", "k"}
DesktopWidth == 768                  \* viewport.width > 768 closes the menu
Widths == {500, 1024}
ScrolledAfter == 100                 \* scrollY > 100 marks the navbar
ScrollPositions == {0, 150}

\* this.elements.<name>: the lookup cacheElements() stored
Has(id) == id \in domPresent

\* a handler's effect on the navigation state, and whether it threw
Done(n) == [nav |-> n, x |-> FALSE]
TypeError(n) == [nav |-> n, x |-> TRUE]

\* the same leaving the toggle button as it is
closeMobileMenuKeepsToggle(n) ==
  [n EXCEPT !.menuActive = IF Has("nav-menu") THEN FALSE ELSE @,
            !.overflow = ""]

\* closeMobileMenu(): removeClass checks its element
closeMobileMenu(n) ==
  [n EXCEPT !.toggleActive = IF Has("mobile-menu-toggle") THEN FALSE ELSE @,
            !.menuActive = IF Has("nav-menu") THEN FALSE ELSE @,
            !.overflow = ""]

\* toggleMobileMenu(): toggleClass checks its element, navMenu.classList
\* does not
toggleMobileMenu(n) ==
  LET toggled == [n EXCEPT !.toggleActive = IF Has("mobile-menu-toggle") THEN ~@ ELSE @,
                           !.menuActive = IF Has("nav-menu") THEN ~@ ELSE @]
  IN IF ~Has("nav-menu") THEN TypeError(toggled)
     ELSE Done([toggled EXCEPT !.overflow = IF toggled.menuActive THEN "hidden" ELSE ""])

\* the document click listener of bindNavigationEvents
documentClick(n, target) ==
  IF ~Has("nav-menu") THEN TypeError(n)
  ELSE IF target = "nav-menu" THEN Done(n)
  ELSE IF ~Has("mobile-menu-toggle") THEN TypeError(n)
  ELSE IF target = "mobile-menu-toggle" THEN Done(n)
  ELSE Done(closeMobileMenu(n))

\* handleKeyboard(e)
handleKeyboard(n, key) == Done(IF key = "Escape" THEN closeMobileMenu(n) ELSE n)

\* handleResize()
handleResize(n, width) == Done(IF width > DesktopWidth THEN closeMobileMenu(n) ELSE n)

\* handleScroll(): addClass / removeClass check the navbar
handleScroll(n, scrollY) ==
  Done(IF Has("navbar") THEN [n EXCEPT !.scrolled = scrollY > ScrolledAfter] ELSE n)

\* the listeners bindEvents() and setupCursor() register on this page
Listeners ==
  {"document", "scroll", "resize", "keydown"}
    \cup (IF Has("mobile-menu-toggle") THEN {"toggle"} ELSE {})
    \cup (IF Has("contact-form") THEN {"submit", "input"} ELSE {})
    \cup (IF Has("cursor") THEN {"mousemove"} ELSE {})

NavUnchanged ==
  UNCHANGED <<now, domVars, utilVars, appVars, motionVars, formVars, waitVars,
              pageYOffset, scrolls, loader>>

\* bindEvents() with setupCursor(): every registration is behind its check
BindEvents ==
  /\ nav.bound = {}
  /\ nav' = [nav EXCEPT !.bound = Listeners]
  /\ lastOp' = Op("bindEvents", TRUE, Null)
  /\ NavUnchanged

\* a handler ran: its effect, and whether an exception escaped it
Handled(name, detail, r) ==
  /\ nav' = r.nav
  /\ threw' = r.x
  /\ lastOp' = Op(name, TRUE, detail)
  /\ UNCHANGED <<now, timers, timerSeq, observers, handles, disconnected, containers,
                 cloned, utilVars, appVars, motionVars, formVars, waitVars, scrolls,
                 loader>>

\* a click that reaches only the document listener
DocumentClick(target) ==
  /\ "document" \in nav.bound
  /\ target # "mobile-menu-toggle"
  /\ target = "elsewhere" \/ Has(target)
  /\ Handled("click", target, documentClick(nav, target))
  /\ UNCHANGED pageYOffset

\* a click on the toggle: its own listener, then the document listener
ToggleClick ==
  /\ "toggle" \in nav.bound
  /\ LET own == toggleMobileMenu(nav)
         doc == documentClick(own.nav, "mobile-menu-toggle")
     IN Handled("toggle", Null, [nav |-> doc.nav, x |-> own.x \/ doc.x])
  /\ UNCHANGED pageYOffset

KeyDown(key) ==
  /\ "keydown" \in nav.bound
  /\ Handled("keydown", key, handleKeyboard(nav, key))
  /\ UNCHANGED pageYOffset

\* the debounced resize listener runs handleResize
Resize(width) ==
  /\ "resize" \in nav.bound
  /\ Handled("resize", IF width > DesktopWidth THEN "desktop" ELSE "mobile",
             handleResize(nav, width))
  /\ UNCHANGED pageYOffset

\* the page is scrolled and the throttled scroll listener runs handleScroll
Scroll(scrollY) ==
  /\ "scroll" \in nav.bound
  /\ pageYOffset' = <<scrollY, 1>>
  /\ Handled("scroll", Null, handleScroll(nav, scrollY))

\* a submit event on the contact form
FormSubmit ==
  /\ "submit" \in nav.bound
  /\ Submit
  /\ UNCHANGED navVars

InitHandlers ==
  /\ domPresent \in SUBSET OptionalTargets
  /\ InitAppState
  /\ reducedMotion = FALSE
  /\ now = 0
  /\ timers = {}
  /\ timerSeq = 0
  /\ observers = EmptyMap
  /\ handles = {}
  /\ disconnected = {}
  /\ containers = [k \in Kinds |-> <<>>]
  /\ cloned = 0
  /\ threw = FALSE
  /\ timeout = 0
  /\ inThrottle = FALSE
  /\ log = <<>>
  /\ lastOp = Op("init", FALSE, Null)
  /\ InitMotion
  /\ form = <<Field("text", FALSE)>>
  /\ submitBtn \in {IdleButton, [IdleButton EXCEPT !.present = FALSE]}
  /\ notifications = <<>>
  /\ submits = 0
  /\ InitPage

NextHandlers ==
  \/ BindEvents
  \/ \E target \in ClickTargets : DocumentClick(target)
  \/ ToggleClick
  \/ \E key \in Keys : KeyDown(key)
  \/ \E width \in Widths : Resize(width)
  \/ \E scrollY \in ScrollPositions : Scroll(scrollY)
  \/ FormSubmit
  \/ \E t \in timers, ok \in BOOLEAN : SubmitSettles(t, ok)
  \/ AdvanceTime

SpecHandlers == InitHandlers /\ [][NextHandlers]_vars

HandlerOps == {"bindEvents", "click", "toggle", "keydown", "resize", "scroll", "submit"}

\* C19: whatever optional targets the page lacks (nav-menu,
\* mobile-menu-toggle, navbar, loading-screen, cursor, contact-form, the
\* form's submit button), no setup call and no bound handler (document
\* click, menu toggle, Escape, resize, scroll, form submit) throws.
C19_HandlersNeverThrow == lastOp.op \in HandlerOps => ~threw

\* ------------------------------------- AnimationSystem.smoothScrollTo
MaxScrolls == 2                    \* smoothScrollTo calls in one behaviour
ScrollOffset == 80                 \* smoothScrollTo(targetSection, 80)
ScrollDuration == 800              \* duration = 800
ScrollFrameSteps == {200, 400}     \* ms from one frame to the next
PageBottom == 900                  \* the largest scroll position of the page
NoTime == -1                       \* startTime = null

\* offsetTop of the sections a link can name; a link naming none finds Null
SectionTops == [hero |-> 40, about |-> 500, contact |-> 1000]
TargetIds == DOMAIN SectionTops \cup {"missing"}

\* positions and progress are fractions <<numerator, denominator>>
Abs(x) == IF x < 0 THEN -x ELSE x
Frac(n, d) == LET g == GCD(Abs(n), d) IN <<n \div g, d \div g>>
Whole(x) == <<x, 1>>
Plus(a, b) == Frac(a[1] * b[2] + b[1] * a[2], a[2] * b[2])
Minus(a, b) == Frac(a[1] * b[2] - b[1] * a[2], a[2] * b[2])
Times(a, b) == Frac(a[1] * b[1], a[2] * b[2])
Less(a, b) == a[1] * b[2] < b[1] * a[2]

\* easeInOutCubic(t)
easeInOutCubic(t) ==
  IF Less(t, <<1, 2>>)
  THEN Times(Whole(4), Times(t, Times(t, t)))
  ELSE LET a == Minus(t, Whole(1))
           b == Minus(Times(Whole(2), t), Whole(2))
       IN Plus(Times(a, Times(b, b)), Whole(1))

\* Math.min(timeElapsed / duration, 1)
Progress(timeElapsed, duration) ==
  IF timeElapsed >= duration THEN Whole(1) ELSE Frac(timeElapsed, duration)

\* window.scrollTo(0, y): the position the page ends at
scrollTo(y) ==
  IF Less(y, Whole(0)) THEN Whole(0)
  ELSE IF Less(Whole(PageBottom), y) THEN Whole(PageBottom)
  ELSE y

ScrollState == [q |-> rafQueue, y |-> pageYOffset, chains |-> scrolls]

SetScroll(st) ==
  /\ rafQueue' = st.q
  /\ pageYOffset' = st.y
  /\ scrolls' = st.chains

Waiting(st) == {st.q[i].chain : i \in DOMAIN st.q}

NewScroll(st, offsetTop, offset, duration) ==
  [start |-> st.y, target |-> Whole(offsetTop - offset), duration |-> duration,
   startTime |-> NoTime, writes |-> <<>>, progress |-> Whole(0), frames |-> 0,
   during |-> Waiting(st)]

\* the same cancelling the chains in flight
smoothScrollToCancels(st, element, offset, duration) ==
  IF element = Null THEN st
  ELSE LET id == Cardinality(DOMAIN st.chains) + 1
       IN [st EXCEPT !.chains = MapSet(@, id, NewScroll(st, SectionTops[element],
                                                          offset, duration)),
                     !.q = <<[kind |-> "scroll", chain |-> id]>>]

\* smoothScrollTo(element, offset, duration)
smoothScrollTo(st, element, offset, duration) ==
  IF element = Null THEN st
  ELSE LET id == Cardinality(DOMAIN st.chains) + 1
       IN [st EXCEPT !.chains = MapSet(@, id, NewScroll(st, SectionTops[element],
                                                          offset, duration)),
                     !.q = Append(@, [kind |-> "scroll", chain |-> id])]

\* animation(currentTime): the frame callback of smoothScrollTo
animation(st, cb, currentTime) ==
  LET c == st.chains[cb.chain]
      startTime == IF c.startTime = NoTime THEN currentTime ELSE c.startTime
      progress == Progress(currentTime - startTime, c.duration)
      distance == Minus(c.target, c.start)
      y == Plus(c.start, Times(distance, easeInOutCubic(progress)))
      wrote == [st EXCEPT !.chains[cb.chain].startTime = startTime,
                          !.chains[cb.chain].progress = progress,
                          !.chains[cb.chain].writes = Append(@, y),
                          !.y = scrollTo(y)]
  IN IF Less(progress, Whole(1)) THEN [wrote EXCEPT !.q = Append(@, cb)]
     ELSE wrote

RECURSIVE RunScrollFrame(_, _, _)
RunScrollFrame(st, queue, currentTime) ==
  IF queue = <<>> THEN st
  ELSE RunScrollFrame(animation(st, Head(queue), currentTime), Tail(queue),
                      currentTime)

\* a frame has passed for every chain that had not reached progress 1
FramePassed(st) ==
  [st EXCEPT !.chains = [id \in DOMAIN @ |->
      IF @[id].progress = Whole(1) THEN @[id]
      ELSE [@[id] EXCEPT !.frames = @ + 1]]]

\* querySelector(targetId) in navigateToSection
Section(targetId) == IF targetId \in DOMAIN SectionTops THEN targetId ELSE Null

\* navigateToSection(targetId): nothing for a missing section, otherwise
\* smoothScrollTo(targetSection, 80)
NavigateToSection(targetId) ==
  /\ Cardinality(DOMAIN scrolls) < MaxScrolls
  /\ Section(targetId) # Null
       => SetScroll(smoothScrollTo(ScrollState, Section(targetId), ScrollOffset,
                                   ScrollDuration))
  /\ Section(targetId) = Null => UNCHANGED <<rafQueue, pageYOffset, scrolls>>
  /\ lastOp' = Op("navigate", Section(targetId) # Null, Null)
  /\ UNCHANGED <<now, domVars, utilVars, appVars, watching, shown, active, style,
                 effectCalls, formVars, waitVars, nav, loader>>

\* the next frame comes d ms later and runs the callbacks requested before it
ScrollFrameFires(d) ==
  /\ rafQueue # <<>>
  /\ now' = now + d
  /\ SetScroll(RunScrollFrame(FramePassed([ScrollState EXCEPT !.q = <<>>]),
                              rafQueue, now + d))
  /\ lastOp' = Op("frame", TRUE, Null)
  /\ UNCHANGED <<domVars, utilVars, appVars, watching, shown, active, style,
                 effectCalls, formVars, waitVars, nav, loader>>

NextScroll ==
  \/ \E targetId \in TargetIds : NavigateToSection(targetId)
  \/ \E d \in ScrollFrameSteps : ScrollFrameFires(d)

SpecScroll == InitDom /\ [][NextScroll]_vars

Complete(c) == c.progress = Whole(1)

\* C20: a chain is stopped by nothing but its own progress: while its
\* progress is below 1 it has a frame requested and has written the scroll
\* position on every frame since its call, whatever calls came after it;
\* once its progress is 1 it has no frame requested, and its last write is
\* its own target, offsetTop - offset.
C20_ScrollNotCancellable ==
  \A id \in DOMAIN scrolls :
    LET c == scrolls[id]
    IN /\ Len(c.writes) = c.frames
       /\ Complete(c) <=> id \notin Waiting(ScrollState)
       /\ Cardinality({i \in DOMAIN rafQueue : rafQueue[i].chain = id}) <= 1
       /\ Complete(c) => /\ c.writes # <<>>
                         /\ c.writes[Len(c.writes)] = c.target

\* the second call came while the first chain was between its first frame
\* and its last; both went on to their own, different, targets
C20_Witness ==
  /\ DOMAIN scrolls = {1, 2}
  /\ scrolls[2].during = {1}
  /\ scrolls[2].start \notin {scrolls[1].start, scrolls[1].target}
  /\ scrolls[1].target # scrolls[2].target
  /\ Complete(scrolls[1]) /\ Complete(scrolls[2])
  /\ Len(scrolls[1].writes) >= 3
  /\ rafQueue = <<>>

\* ------------------------- AnimationSystem.showLoading / hideLoading
\* showLoading(element, text): a new indicator is appended and faded in
showLoading(ms) == fadeIn(ms)

\* the timer fadeOut has just set, carrying the continuation of its caller
Then(ms, kind) ==
  [ms EXCEPT !.t = {IF t.id = ms.s THEN [t EXCEPT !.kind = kind] ELSE t : t \in @}]

\* hideLoading(loader): fadeOut(loader).then(() => removeElement(loader))
hideLoading(ms) ==
  IF reducedMotion THEN fadeOut(ms, FadeInDuration)
  ELSE Then(fadeOut(ms, FadeInDuration), "loaderFade")

LoaderUnchanged ==
  UNCHANGED <<observers, handles, disconnected, cloned, threw, utilVars, appVars,
              watching, active, effectCalls, formVars, waitVars, navVars>>

ShowLoading ==
  /\ loader.state = "none"
  /\ loader' = [loader EXCEPT !.state = "shown"]
  /\ SetMotion(showLoading(MotionState))
  /\ lastOp' = Op("showLoading", TRUE, Null)
  /\ UNCHANGED now
  /\ LoaderUnchanged

\* hideLoading(loader); under reduced motion the promise is settled already
\* and the removal follows in the same task
HideLoading ==
  /\ loader.state = "shown"
  /\ loader' = [loader EXCEPT !.state = IF reducedMotion THEN "removed" ELSE "fading",
                              !.hideAt = now, !.removedAt = now]
  /\ SetMotion(hideLoading(MotionState))
  /\ lastOp' = Op("hideLoading", TRUE, Null)
  /\ UNCHANGED now
  /\ LoaderUnchanged

\* the timer of fadeOut(loader) fires: the promise resolves and the
\* continuation removes the indicator
LoaderFadeFires(t) ==
  /\ NextTimer(t)
  /\ t.kind = "loaderFade"
  /\ timers' = timers \ {t}
  /\ loader' = [loader EXCEPT !.state = "removed", !.removedAt = now]
  /\ lastOp' = Op("loaderFade", TRUE, Null)
  /\ UNCHANGED <<now, timerSeq, containers, rafQueue, shown, style>>
  /\ LoaderUnchanged

NextLoading ==
  \/ \E outcome \in {"ok", "network", "http"} : FetchResponds(outcome)
  \/ JsonFails
  \/ \E doc \in SiteDocs : JsonParsed(doc)
  \/ \E t \in timers : MinLoadFires(t)
  \/ \E t \in timers : FadeFires(t)
  \/ Destroy
  \/ ShowLoading
  \/ HideLoading
  \/ \E t \in timers : LoaderFadeFires(t)
  \/ \E d \in FrameSteps : FrameFires(d)
  \/ AdvanceTime

SpecLoading == Init /\ [][NextLoading]_vars

FadeTimers(ts, kind) == {t \in ts : t.kind = kind}

\* C21: without reduced motion the completion of fadeOut comes no earlier
\* than its duration after the call, and the callers act only then:
\* hideLoading(loader) removes the loader, and the page controller sets the
\* loading screen to display none, only when the timer set at the call, due
\* a full duration later, has fired.
C21_RemovalAfterFadeOut ==
  [][~reducedMotion =>
       /\ (loader.state = "shown" /\ loader'.state # "shown") =>
            /\ loader'.state = "fading"
            /\ \E t \in timers' \ timers :
                 t.kind = "loaderFade" /\ t.due = now + FadeInDuration
       /\ (loader.state # "removed" /\ loader'.state = "removed") =>
            /\ loader.state = "fading"
            /\ now' >= loader.hideAt + FadeInDuration
            /\ FadeTimers(timers, "loaderFade") # {}
            /\ FadeTimers(timers', "loaderFade") = {}
       /\ (pc # "fading" /\ pc' = "fading") =>
            /\ loading'.display # "none"
            /\ \E t \in timers' \ timers :
                 t.kind = "fade" /\ t.due = now + FadeDuration
       /\ (loading.display # "none" /\ loading'.display = "none") =>
            /\ pc = "fading"
            /\ \E t \in timers \ timers' : t.kind = "fade" /\ t.due <= now
       /\ pc' = "fading" => Cardinality(FadeTimers(timers', "fade")) = 1]_vars

\* both callers have finished: the loader was removed 300 ms after
\* hideLoading, the loading screen hidden once the controller was ready
C21_Witness ==
  /\ ~reducedMotion
  /\ loader.state = "removed"
  /\ loader.removedAt = loader.hideAt + FadeInDuration
  /\ loading.display = "none"
  /\ pc = "done"

\* C22: once destroy() has run, the observer registry is empty in every
\* later state: nothing pending from before the teardown registers a new
\* observer afterwards.
\* destroy() has run: it was the last operation, or an observer it
\* disconnected shows it (nothing else disconnects one on this page)
TornDown == lastOp.op = "destroy" \/ disconnected # {}

C22_RegistryStaysEmpty ==
  [][(TornDown /\ observers = EmptyMap) => observers' = EmptyMap]_vars

EndsWith(text, suffix) ==
  /\ Len(text) >= Len(suffix)
  /\ SubSeq(text, Len(text) - Len(suffix) + 1, Len(text)) = suffix

\* C23: from its rendering to the end of its count, the number slot of a
\* stat shows a text that ends with the stat's suffix, and so does every
\* text a count has written into it.
C23_SuffixNeverDisappears ==
  \A i \in DOMAIN containers["stats"] :
    LET card == containers["stats"][i]
        stat == Stat(card.rec)
    IN /\ EndsWith(card.number, stat.suffix)
       /\ \A c \in ObserverChains(NumberEl(card.node)) :
            \A w \in 1..Len(shown[c].writes) :
              EndsWith(shown[c].writes[w].text, stat.suffix)

\* what the code keeps: the text before the count and the text that ends it
SuffixAtBothEnds ==
  \A i \in DOMAIN containers["stats"] :
    LET card == containers["stats"][i]
        stat == Stat(card.rec)
        chains == ObserverChains(NumberEl(card.node))
    IN (chains = {} \/ \A c \in chains : Finished(c))
         => EndsWith(card.number, stat.suffix)

\* ------------------------------------- submit events while one is pending
\* a submit event that does not go through the disabled button: another
\* submit control, Enter handled by script, form.requestSubmit()
SubmitEvent ==
  /\ "contact-form" \in domPresent
  /\ submits < MaxSubmits
  /\ submits' = submits + 1
  /\ SetForm(handleFormSubmit(FormState))
  /\ lastOp' = Op("submit", submitBtn.disabled, Null)
  /\ UNCHANGED <<now, observers, handles, disconnected, containers, cloned, utilVars,
                 appVars, motionVars, pageVars>>

NextResubmit ==
  \/ \E i \in 1..2, value \in FieldValues : Input(i, value)
  \/ SubmitEvent
  \/ \E t \in timers, ok \in BOOLEAN : SubmitSettles(t, ok)
  \/ AdvanceTime

SpecResubmit == InitFormPage /\ [][NextResubmit]_vars

PendingSubmits == {t \in timers : t.kind = "submit"}

\* C24: while a started submission is pending the button is disabled and
\* reads 'Sending...'; when every started submission has settled it is
\* enabled and reads what it read before the first submission, also when a
\* submit event arrives while an earlier submission is pending.
C24_ButtonFollowsPending ==
  IF PendingSubmits # {}
  THEN submitBtn.disabled /\ submitBtn.text = SendingText
  ELSE ~submitBtn.disabled /\ submitBtn.text = ButtonText

\* ------------------------------------------------ the mobile menu
NavLinkTargets == {"about", "missing"}     \* href of the .nav-link elements

\* the click listener of a nav link
navLinkClick(st, n, targetId) ==
  [scroll |-> IF Section(targetId) = Null THEN st
              ELSE smoothScrollTo(st, Section(targetId), ScrollOffset, ScrollDuration),
   nav |-> closeMobileMenu(n)]

\* a click on a nav link, inside the menu or not: its own listener, then
\* the document listener
NavLinkClick(targetId, inside) ==
  /\ "document" \in nav.bound
  /\ Cardinality(DOMAIN scrolls) < MaxScrolls
  /\ LET own == navLinkClick(ScrollState, nav, targetId)
         doc == documentClick(own.nav, IF inside THEN "nav-menu" ELSE "elsewhere")
     IN /\ SetScroll(own.scroll)
        /\ nav' = doc.nav
        /\ threw' = doc.x
  /\ lastOp' = Op("navLink", TRUE, targetId)
  /\ UNCHANGED <<now, timers, timerSeq, observers, handles, disconnected, containers,
                 cloned, utilVars, appVars, watching, shown, active, style,
                 effectCalls, formVars, waitVars, loader>>

\* the page with every optional target in its markup, the menu closed
InitMenu ==
  /\ InitHandlers
  /\ domPresent = OptionalTargets
  /\ submitBtn.present

NextMenu ==
  \/ BindEvents
  \/ ToggleClick
  \/ \E targetId \in NavLinkTargets, inside \in BOOLEAN : NavLinkClick(targetId, inside)
  \/ \E target \in ClickTargets : DocumentClick(target)
  \/ \E key \in Keys : KeyDown(key)
  \/ \E width \in Widths : Resize(width)
  \/ \E d \in ScrollFrameSteps : ScrollFrameFires(d)

SpecMenu == InitMenu /\ [][NextMenu]_vars

\* the events that close the menu
Closes(op) ==
  \/ op.op = "keydown" /\ op.cont = "Escape"
  \/ op.op = "click" /\ op.cont = "elsewhere"
  \/ op.op = "navLink"
  \/ op.op = "resize" /\ op.cont = "desktop"

ScrollThrottle == 16          \* domManager.throttle(() => this.handleScroll(), 16)
ScrollGaps == {5, 20}         \* ms between scroll events
NavbarMaxTime == 60            \* no scroll event from this time on

\* scrollHandler: the wrapper throttle() returns around handleScroll, which
\* reads window.pageYOffset when it runs
scrollHandler(st, n, scrollY) ==
  IF ~st.inThrottle
  THEN [util |-> setTimeout([st EXCEPT !.inThrottle = TRUE], "scrollReset", <<>>,
                            ScrollThrottle),
        nav |-> handleScroll(n, scrollY).nav]
  ELSE [util |-> st, nav |-> n]

\* the page is scrolled to scrollY and the scroll event reaches the listener
ScrollEvent(scrollY) ==
  /\ "scroll" \in nav.bound
  /\ now < NavbarMaxTime
  /\ pageYOffset # <<scrollY, 1>>
  /\ pageYOffset' = <<scrollY, 1>>
  /\ LET r == scrollHandler(UtilState, nav, scrollY)
     IN /\ SetUtil(r.util)
        /\ nav' = r.nav
  /\ lastOp' = Op("scroll", ~inThrottle, Null)
  /\ UNCHANGED <<now, observers, handles, disconnected, containers, cloned, threw,
                 appVars, motionVars, formVars, waitVars, scrolls, loader>>

\* () => inThrottle = false
ScrollWindowEnds(t) ==
  /\ NextTimer(t)
  /\ t.kind = "scrollReset"
  /\ timers' = timers \ {t}
  /\ inThrottle' = FALSE
  /\ lastOp' = Op("scrollReset", TRUE, Null)
  /\ UNCHANGED <<now, timerSeq, observers, handles, disconnected, containers, cloned,
                 threw, timeout, log, appVars, uiVars>>

NextNavbar ==
  \/ BindEvents
  \/ \E scrollY \in ScrollPositions : ScrollEvent(scrollY)
  \/ \E t \in timers : ScrollWindowEnds(t)
  \/ \E d \in ScrollGaps : Elapse(d, NavbarMaxTime)
  \/ AdvanceTime

SpecNavbar == InitMenu /\ [][NextNavbar]_vars

WindowExpired == ~inThrottle /\ \A t \in timers : t.kind # "scrollReset"

\* C26: whenever the 16 ms throttle window has expired, the navbar carries
\* the class scrolled exactly when the scroll offset is above 100, whatever
\* scroll events came before, inside a window or not.
C26_NavbarTracksScroll ==
  ("scroll" \in nav.bound /\ WindowExpired)
    => (nav.scrolled <=> Less(<<ScrolledAfter, 1>>, pageYOffset))

\* what the listener does keep: right after an event it did not drop
HandledScrollTracks ==
  (lastOp.op = "scroll" /\ lastOp.given)
    => (nav.scrolled <=> Less(<<ScrolledAfter, 1>>, pageYOffset))

====
